---- MODULE Spec2Model ----
(***************************************************************************)
(* Model of the pine-backtester core:                                      *)
(*   - backend/routers/backtest.py  run_sma_cross (bar simulation engine)  *)
(*   - backend/routers/optimize.py  run_optuna_optimization and its        *)
(*     objective closure (parameter search engine)                         *)
(*                                                                         *)
(* Prices, money and unit counts are Python floats in the source.  They    *)
(* are modelled as exact rationals <<numerator, denominator>> in lowest    *)
(* terms, so that accounting identities are decided exactly and the        *)
(* effect of round(x, k) is visible.                                       *)
(***************************************************************************)
EXTENDS Integers, Sequences, FiniteSets, TLC

\* ------------------------------------------------------------------------
\* Bounds of the model
\* ------------------------------------------------------------------------
\* number of bars of the series handed to run_sma_cross
NBars == 6

\* largest n_trials of a search request
MaxTrials == 2

\* largest top_n of a search request
MaxTopN == 2

\* largest n_trials of the searches run on one thread
MaxBatchTrials == 21

\* ------------------------------------------------------------------------
\* Exact rational arithmetic (stands for Python float arithmetic)
\* ------------------------------------------------------------------------
Abs(x) == IF x < 0 THEN -x ELSE x

RECURSIVE GCD(_, _)
GCD(a, b) == IF b = 0 THEN a ELSE GCD(b, a % b)

RNorm(n, d) == LET g == GCD(Abs(n), d) IN <<n \div g, d \div g>>

R(k) == <<k, 1>>

RAdd(x, y) ==
    LET g == GCD(x[2], y[2])
        l == (x[2] \div g) * y[2]
    IN  RNorm(x[1] * (l \div x[2]) + y[1] * (l \div y[2]), l)

RNeg(x) == <<-x[1], x[2]>>

RSub(x, y) == RAdd(x, RNeg(y))

RMul(x, y) ==
    LET a == RNorm(x[1], y[2])
        b == RNorm(y[1], x[2])
    IN  RNorm(a[1] * b[1], a[2] * b[2])

\* x / y, y # 0
RDiv(x, y) ==
    IF y[1] > 0 THEN RMul(x, <<y[2], y[1]>>) ELSE RMul(x, <<-y[2], -y[1]>>)

RLt(x, y) == RSub(x, y)[1] < 0

RLe(x, y) == RSub(x, y)[1] <= 0

RAbs(x) == <<Abs(x[1]), x[2]>>

RECURSIVE Pow10(_)
Pow10(k) == IF k = 0 THEN 1 ELSE 10 * Pow10(k - 1)

\* Python round(x, k): nearest multiple of 10^-k, ties to even
RoundTo(x, k) ==
    LET d    == x[2]
        ip   == x[1] \div d
        r    == x[1] % d
        s    == Pow10(k)
        fs   == (r * s) \div d
        rem  == (r * s) % d
        base == ip * s + fs
        up   == IF 2 * rem > d THEN 1
                ELSE IF 2 * rem = d /\ base % 2 = 1 THEN 1
                ELSE 0
    IN  RNorm(base + up, s)

\* ------------------------------------------------------------------------
\* Inputs of run_sma_cross
\* ------------------------------------------------------------------------
\* prices a bar's open and close are drawn from
Prices == {2, 3}

\* (fast, slow) period pairs
Periods == {<<1, 2>>, <<2, 3>>}

QtyTypes == {"percent_of_equity", "cash", "fixed"}

CommissionTypes == {"percent", "fixed"}

\* initial_capital, qty_value and commission_value the runs are started with
Capitals == {R(100)}

QtyValues == {R(100)}

CommissionValues == {<<1, 10>>}

BarIdx == 0 .. (NBars - 1)

VARIABLES
    \* ---- run_sma_cross ----
    closes,          \* closes[i], i in 0..n-1
    opens,           \* opens[i]; 0 until the fill on bar i reads it
    cfg,             \* the keyword arguments of the call
    i,               \* loop variable of `for i in range(slow, n)`
    pc,              \* position in run_sma_cross
    position,        \* <<>> (None) or <<[entry, entry_time, units, comm_entry]>>
    equity,
    pending_signal,  \* "none" | "entry" | "exit"
    trades,          \* the returned trade list
    equity_curve,
    final_equity,    \* second component of the returned tuple, <<>> before return
    \* ---- history of the run (not program state) ----
    orderBar,        \* bar on which the pending order was decided
    orderReadMax,    \* highest bar index read by the decision that set it
    fills,           \* log of order fills
    ledger,          \* per round-trip: the unrounded amounts
    barLog,          \* per bar the loop has processed: equity and position after it
    firstRun         \* <<>> or <<what the previous call with these arguments returned>>

simVars == <<closes, opens, cfg, i, pc, position, equity, pending_signal, trades,
             equity_curve, final_equity, orderBar, orderReadMax, fills, ledger,
             barLog, firstRun>>

VARIABLES
    \* ---- run_optuna_optimization ----
    req,             \* [n_trials, top_n, sort_by] of the request
    dpc,             \* position of the driver (the async generator)
    remaining,
    batch,
    toSubmit,        \* trials of the running study.optimize call not yet started
    nextTrial,       \* number the study gives the next trial
    worker,          \* per pool thread: position in objective and its locals
    run_fn,          \* the closure variable: "supplied" | "fallback"
    results_store,
    elite_store,
    completed,       \* completed[0]
    best_value,      \* best_value[0]: <<>> (None) or <<v>>
    trial_times,     \* len(trial_times)
    events,          \* the SSE events yielded so far
    raised,          \* an exception left objective and study.optimize
    cpu_count,       \* threads study.optimize(n_jobs=-1) runs trials on
    behaviour,       \* per decision function: how a call of it can end
    cancel,          \* the caller asked for the search to stop
    json_safe,       \* json.dumps can serialize what the decision functions
                     \* put into their trades
    \* ---- history of the search (not program state) ----
    trialLog,        \* per trial number + 1: the function called first, how that
                     \* call and the fallback call ended, what objective returned
    inserted,        \* per score: how many times it was appended to elite_store
    batchLog,        \* the sizes of the batches handed to study.optimize
    told             \* trial numbers in the order objective returned to the study

optVars == <<req, dpc, remaining, batch, toSubmit, nextTrial, worker, run_fn,
             results_store, elite_store, completed, best_value, trial_times, events,
             raised, trialLog, inserted, cpu_count, behaviour, cancel, json_safe,
             batchLog, told>>

\* what the search never writes, and the caller's flag
optEnv == <<cpu_count, behaviour, cancel, json_safe>>

VARIABLES
    \* ---- run_optimization ----
    rpc,             \* position in run_optimization
    env,             \* [api_key, bypass_cache]: GEMINI_API_KEY set, req.bypass_cache
    bars,            \* len(df), -1 before the fetch
    translate_cache, \* _translate_cache[key]: <<>> (absent) or <<code>>
    strategy_code,   \* <<>> or <<[origin, kind]>>
    http_error,      \* <<>> or <<[status, detail]>> of the HTTPException raised
    searched,        \* <<>> or <<origin>> of the run_fn the search was started with
    \* ---- history of the request (not program state) ----
    steps            \* the steps of run_optimization taken so far

runVars == <<rpc, env, bars, translate_cache, strategy_code, http_error, searched,
             steps>>

VARIABLES
    \* ---- calc_metrics, calc_basic_metrics, objective's use of calc_metrics ----
    mcall,           \* <<>> or the call: [fn, raw, initial_capital, sort_by]
    mret             \* <<>> or <<what the call returned or raised>>

metVars == <<mcall, mret>>

VARIABLES
    \* ---- translate_with_gemini (its cache is translate_cache, above) ----
    tpc,             \* position in translate_with_gemini
    targs,           \* <<>> or the call: [bypass_cache, api_key]
    tret,            \* <<>> or <<what the call returned or raised>>
    \* ---- _call_gemini_with_retry ----
    gpc,             \* position in _call_gemini_with_retry
    max_retries,
    attempt,         \* loop variable of `for attempt in range(max_retries + 1)`
    gret,            \* <<>> or <<what the call returned or raised>>
    \* ---- history of the calls (not program state) ----
    tcalls,          \* translate_with_gemini calls started so far
    tbefore,         \* _translate_cache as the running call found it
    gem_log          \* how each model.generate_content call of the running
                     \* retry call ended

gemVars == <<tpc, targs, tret, gpc, max_retries, attempt, gret, tcalls, tbefore,
             gem_log>>

VARIABLES
    \* ---- market.fetch_and_cache ----
    use_kraken,      \* _use_kraken
    fetcher,         \* per task running fetch_and_cache: its position
    fraised,         \* an exception left a fetch_and_cache call
    \* ---- history of the calls (not program state) ----
    fcalls,          \* fetch_and_cache calls started so far
    mlog             \* what the calls did, in order: [task, kind, flag], flag
                     \* being _use_kraken after the step

mktVars == <<use_kraken, fetcher, fraised, fcalls, mlog>>

VARIABLES
    \* ---- optimize.fetch_candles ----
    ppc,             \* position in fetch_candles
    prange,          \* [start_ms, end_ms] of the call
    current_start,   \* cursor of the Binance.US loop, in ms
    since,           \* cursor of the Kraken loop, in seconds
    all_candles,     \* the timestamps of the rows collected so far
    \* ---- history of the call (not program state) ----
    pages,           \* requests the running loop has sent
    honest           \* every answer so far held only candles the request
                     \* asked for

pageVars == <<ppc, prange, current_start, since, all_candles, pages, honest>>

VARIABLES
    \* ---- routers/strategy.py ----
    db,              \* the table strategies: id -> row
    clock,           \* what datetime.now() reads
    sret,            \* the answer of the last request
    \* ---- history of the store (not program state) ----
    nsaved,          \* rows inserted so far
    purged           \* ids removed by the expiry cleanup of save_strategy

storeVars == <<db, clock, sret, nsaved, purged>>

\* the services around the simulator and the search
svcVars == <<gemVars, mktVars, pageVars, storeVars>>

vars == <<simVars, optVars, runVars, metVars, svcVars>>

\* no translation and no call of Gemini under way
GemIdle ==
    /\ tpc = "idle"
    /\ targs = <<>>
    /\ tret = <<>>
    /\ gpc = "idle"
    /\ max_retries = 0
    /\ attempt = 0
    /\ gret = <<>>
    /\ tcalls = 0
    /\ tbefore = <<>>
    /\ gem_log = <<>>

\* tasks that call fetch_and_cache: the scheduler's sync, a /klines request
FetchTasks == {1, 2}

\* market.py as imported: _use_kraken = False, no call under way
MktIdle ==
    /\ use_kraken = FALSE
    /\ fetcher = [t \in FetchTasks |-> "idle"]
    /\ fraised = FALSE
    /\ fcalls = 0
    /\ mlog = <<>>

\* no call of optimize.fetch_candles
PageIdle ==
    /\ ppc = "idle"
    /\ prange = <<>>
    /\ current_start = 0
    /\ since = 0
    /\ all_candles = <<>>
    /\ pages = 0
    /\ honest = TRUE

\* no request to the strategy store has been answered
NoResponse ==
    [op |-> "none", now |-> <<0, 0>>, id |-> 0, status |-> "none", rows |-> <<>>,
     expires_at |-> <<>>]

\* no request to the strategy store: the table is empty
StoreIdle ==
    /\ db = <<>>
    /\ clock = <<0, 0>>
    /\ sret = NoResponse
    /\ nsaved = 0
    /\ purged = {}

\* the services at rest
SvcIdle ==
    /\ GemIdle
    /\ MktIdle
    /\ PageIdle
    /\ StoreIdle

\* no metrics call
MetIdle ==
    /\ mcall = <<>>
    /\ mret = <<>>

\* run_optimization at rest
RunIdle ==
    /\ rpc = "idle"
    /\ env = <<>>
    /\ bars = -1
    /\ translate_cache = <<>>
    /\ strategy_code = <<>>
    /\ http_error = <<>>
    /\ searched = <<>>
    /\ steps = <<>>

\* n = len(closes)
n == Cardinality(DOMAIN closes)

NoPosition == <<>>

\* ------------------------------------------------------------------------
\* run_sma_cross: helpers
\* ------------------------------------------------------------------------
\* Python slice bounds seq[a:b] on a list of length len: the index range a..b-1
\* after negative indices are taken from the end and both are clamped
SliceLo(a, len) == IF a < 0 THEN (IF a + len < 0 THEN 0 ELSE a + len)
                   ELSE (IF a > len THEN len ELSE a)

SliceIdx(a, b, len) == (SliceLo(a, len)) .. (SliceLo(b, len) - 1)

RECURSIVE SumOver(_, _)
SumOver(f, S) == IF S = {} THEN 0
                 ELSE LET x == CHOOSE y \in S : TRUE
                      IN  f[x] + SumOver(f, S \ {x})

\* sum(closes[a:b]) / period
MovingAvg(a, b, period) == RNorm(SumOver(closes, SliceIdx(a, b, n)), period)

\* the slices of step 2 on bar k: <<lo, hi>> meaning closes[lo:hi]
FastWindow(k) == <<k - cfg.fast + 1, k + 1>>
SlowWindow(k) == <<k - cfg.slow + 1, k + 1>>
FastWindowPrev(k) == <<k - cfg.fast, k>>
SlowWindowPrev(k) == <<k - cfg.slow, k>>

\* the bar indices step 2 reads on bar k
SignalReads(k) ==
    SliceIdx(FastWindow(k)[1], FastWindow(k)[2], n)
    \cup SliceIdx(SlowWindow(k)[1], SlowWindow(k)[2], n)
    \cup SliceIdx(FastWindowPrev(k)[1], FastWindowPrev(k)[2], n)
    \cup SliceIdx(SlowWindowPrev(k)[1], SlowWindowPrev(k)[2], n)

SetMax(S) == CHOOSE x \in S : \A y \in S : y <= x

\* mutant: the signal conditions without their `position is None` /
\* `position is not None` conjuncts
DetectedSignalIgnoringPosition(k, held) ==
    LET fast_ma      == MovingAvg(FastWindow(k)[1], FastWindow(k)[2], cfg.fast)
        slow_ma      == MovingAvg(SlowWindow(k)[1], SlowWindow(k)[2], cfg.slow)
        fast_ma_prev == MovingAvg(FastWindowPrev(k)[1], FastWindowPrev(k)[2], cfg.fast)
        slow_ma_prev == MovingAvg(SlowWindowPrev(k)[1], SlowWindowPrev(k)[2], cfg.slow)
    IN  IF RLe(fast_ma_prev, slow_ma_prev) /\ RLt(slow_ma, fast_ma)
        THEN "entry"
        ELSE IF RLe(slow_ma_prev, fast_ma_prev) /\ RLt(fast_ma, slow_ma)
        THEN "exit"
        ELSE "keep"

\* mutant: a cross needs the averages strictly apart on the bar before
DetectedSignalStrictCross(k, held) ==
    LET fast_ma      == MovingAvg(FastWindow(k)[1], FastWindow(k)[2], cfg.fast)
        slow_ma      == MovingAvg(SlowWindow(k)[1], SlowWindow(k)[2], cfg.slow)
        fast_ma_prev == MovingAvg(FastWindowPrev(k)[1], FastWindowPrev(k)[2], cfg.fast)
        slow_ma_prev == MovingAvg(SlowWindowPrev(k)[1], SlowWindowPrev(k)[2], cfg.slow)
    IN  IF RLt(fast_ma_prev, slow_ma_prev) /\ RLt(slow_ma, fast_ma) /\ ~held
        THEN "entry"
        ELSE IF RLt(slow_ma_prev, fast_ma_prev) /\ RLt(fast_ma, slow_ma) /\ held
        THEN "exit"
        ELSE "keep"

\* the signal step 2 detects on bar k given whether a position is held
DetectedSignal(k, held) ==
    LET fast_ma      == MovingAvg(FastWindow(k)[1], FastWindow(k)[2], cfg.fast)
        slow_ma      == MovingAvg(SlowWindow(k)[1], SlowWindow(k)[2], cfg.slow)
        fast_ma_prev == MovingAvg(FastWindowPrev(k)[1], FastWindowPrev(k)[2], cfg.fast)
        slow_ma_prev == MovingAvg(SlowWindowPrev(k)[1], SlowWindowPrev(k)[2], cfg.slow)
    IN  IF RLe(fast_ma_prev, slow_ma_prev) /\ RLt(slow_ma, fast_ma) /\ ~held
        THEN "entry"
        ELSE IF RLe(slow_ma_prev, fast_ma_prev) /\ RLt(fast_ma, slow_ma) /\ held
        THEN "exit"
        ELSE "keep"

\* mutant: the order fills at the close of the bar that decided it
FillPriceAtSignalClose(k) == R(closes[k - 1])

\* price an order pending on entry to bar k is filled at: opens[k], which
\* the fill draws from Prices (no other statement reads an open)
FillPrice(k) == R(opens'[k])

\* the price levels of the series: an open that a fill reads is one of them
OpenValues == {closes[k] : k \in DOMAIN closes}

DrawOpen(k) == IF opens[k] # 0
               THEN opens' = opens
               ELSE \E o \in OpenValues : opens' = [opens EXCEPT ![k] = o]

\* mutant: equity is kept from the call before
InitialEquityCarriedOver(c) == equity

\* equity = initial_capital
InitialEquity(c) == c.initial_capital

\* mutant: the loop starts one bar early
FirstBarOneEarly(c) == c.slow - 1

\* first bar the loop visits: `for i in range(slow, n)`
FirstBar(c) == c.slow

\* mutant: the forced close takes the close before the last
LastCloseOffByOne == R(closes[n - 2])

\* price of the forced close after the loop: closes[-1]
LastClose == R(closes[n - 1])

\* mutant: percent-of-equity sizing from the initial capital
EntryUnitsFromInitialCapital(eq, price) ==
    IF cfg.qty_type = "percent_of_equity"
    THEN RDiv(RDiv(RMul(cfg.initial_capital, cfg.qty_value), R(100)), price)
    ELSE IF cfg.qty_type = "cash"
    THEN RDiv(cfg.qty_value, price)
    ELSE cfg.qty_value

\* units of an entry filled at `price` with equity `eq`
EntryUnits(eq, price) ==
    IF cfg.qty_type = "percent_of_equity"
    THEN RDiv(RDiv(RMul(eq, cfg.qty_value), R(100)), price)
    ELSE IF cfg.qty_type = "cash"
    THEN RDiv(cfg.qty_value, price)
    ELSE cfg.qty_value

\* commission of one leg
Commission(units, price) ==
    IF cfg.commission_type = "percent"
    THEN RMul(RMul(units, price), cfg.commission_value)
    ELSE cfg.commission_value

\* mutant: the entry commission is taken from equity twice
EquityAfterEntryChargedTwice(eq, comm_entry) == RSub(RSub(eq, comm_entry), comm_entry)

\* equity -= comm_entry
EquityAfterEntry(eq, comm_entry) == RSub(eq, comm_entry)

\* mutant: the exit leaves the gross result of the trade out of equity
EquityAfterExitWithoutGross(eq, gross, comm_exit) == RSub(eq, comm_exit)

\* equity += gross - comm_exit
EquityAfterExit(eq, gross, comm_exit) == RAdd(eq, RSub(gross, comm_exit))

\* pnl = gross - position["comm_entry"] - comm_exit
TradePnl(gross, comm_entry, comm_exit) == RSub(RSub(gross, comm_entry), comm_exit)

\* mutant: the trade is stamped with its entry bar as exit time
TradeRecordExitAtEntry(pos, price, k, pnl, eq) ==
    [ entry_time  |-> pos.entry_time,
      exit_time   |-> pos.entry_time,
      entry_price |-> RoundTo(pos.entry, 6),
      exit_price  |-> RoundTo(price, 6),
      side        |-> "long",
      pnl         |-> RoundTo(pnl, 4),
      pnl_pct     |-> RoundTo(RMul(RDiv(RSub(price, pos.entry), pos.entry), R(100)), 4),
      equity      |-> RoundTo(eq, 2) ]

\* the dict appended to trades on an exit at `price` on bar `k`
TradeRecord(pos, price, k, pnl, eq) ==
    [ entry_time  |-> pos.entry_time,
      exit_time   |-> k,
      entry_price |-> RoundTo(pos.entry, 6),
      exit_price  |-> RoundTo(price, 6),
      side        |-> "long",
      pnl         |-> RoundTo(pnl, 4),
      pnl_pct     |-> RoundTo(RMul(RDiv(RSub(price, pos.entry), pos.entry), R(100)), 4),
      equity      |-> RoundTo(eq, 2) ]

\* ------------------------------------------------------------------------
\* run_sma_cross: the state machine
\* ------------------------------------------------------------------------
\* threads of the pool study.optimize(n_jobs=-1) runs trials on
Workers == {1, 2}

\* a pool thread that runs no trial
Idle == [pc |-> "idle", num |-> -1, val |-> 0, tmp |-> 0]

\* the search engine at rest, while a simulation alone is run
OptIdle ==
    /\ req = [n_trials |-> 0, top_n |-> 0, sort_by |-> "profit_pct"]
    /\ dpc = "idle"
    /\ remaining = 0
    /\ batch = 0
    /\ toSubmit = 0
    /\ nextTrial = 0
    /\ worker = [wk \in Workers |-> Idle]
    /\ run_fn = "supplied"
    /\ results_store = <<>>
    /\ elite_store = <<>>
    /\ completed = 0
    /\ best_value = <<>>
    /\ trial_times = 0
    /\ events = <<>>
    /\ raised = FALSE
    /\ trialLog = <<>>
    /\ inserted = <<>>
    /\ cpu_count = 0
    /\ behaviour = <<>>
    /\ cancel = FALSE
    /\ json_safe = TRUE
    /\ batchLog = <<>>
    /\ told = <<>>

SimInit ==
    /\ OptIdle
    /\ RunIdle
    /\ MetIdle
    /\ SvcIdle
    /\ closes \in [BarIdx -> Prices]
    /\ opens = [k \in BarIdx |-> 0]
    /\ \E p \in Periods, qt \in QtyTypes, ct \in CommissionTypes,
          ic \in Capitals, qv \in QtyValues, cv \in CommissionValues :
          cfg = [ fast |-> p[1], slow |-> p[2], initial_capital |-> ic,
                  commission_value |-> cv, commission_type |-> ct,
                  qty_type |-> qt, qty_value |-> qv ]
    /\ i = FirstBar(cfg)
    /\ pc = IF FirstBar(cfg) < n THEN "fill" ELSE "close"
    /\ position = NoPosition
    /\ equity = cfg.initial_capital
    /\ equity_curve = <<cfg.initial_capital>>
    /\ pending_signal = "none"
    /\ trades = <<>>
    /\ final_equity = <<>>
    /\ orderBar = -1
    /\ orderReadMax = -1
    /\ fills = <<>>
    /\ ledger = <<>>
    /\ barLog = <<>>
    /\ firstRun = <<>>

\* Step 1, first branch: the pending entry fills on this bar's open
FillEntry ==
    /\ pc = "fill"
    /\ pending_signal = "entry" /\ position = NoPosition
    /\ DrawOpen(i)
    /\ LET price      == FillPrice(i)
           units      == EntryUnits(equity, price)
           comm_entry == Commission(units, price)
       IN  /\ equity' = EquityAfterEntry(equity, comm_entry)
           /\ position' = << [ entry |-> price, entry_time |-> i,
                               units |-> units, comm_entry |-> comm_entry ] >>
           /\ fills' = Append(fills, [ kind |-> "entry", decided |-> orderBar,
                                       readMax |-> orderReadMax, bar |-> i,
                                       price |-> price ])
           /\ ledger' = Append(ledger, [ eq_before |-> equity, units |-> units,
                                         entry |-> price, comm_entry |-> comm_entry,
                                         eq_entry |-> EquityAfterEntry(equity, comm_entry),
                                         closed |-> FALSE ])
    /\ pending_signal' = "none"
    /\ pc' = "signal"
    /\ UNCHANGED <<optVars, runVars, metVars, svcVars, barLog, firstRun>>
    /\ UNCHANGED <<closes, cfg, i, trades, equity_curve, final_equity,
                   orderBar, orderReadMax>>

\* the exit of the open position at `price` on bar `k`, shared by the
\* regular exit (step 1, second branch) and the close after the loop
ExitAt(price, k, forced) ==
    LET pos       == position[1]
        units     == pos.units
        comm_exit == Commission(units, price)
        gross     == RMul(units, RSub(price, pos.entry))
        pnl       == TradePnl(gross, pos.comm_entry, comm_exit)
        eq        == EquityAfterExit(equity, gross, comm_exit)
        open      == ledger[Len(ledger)]
    IN  /\ equity' = eq
        /\ trades' = Append(trades, TradeRecord(pos, price, k, pnl, eq))
        /\ equity_curve' = Append(equity_curve, RoundTo(eq, 2))
        /\ ledger' = [ledger EXCEPT ![Len(ledger)] =
                         [ eq_before |-> open.eq_before, units |-> units,
                           entry |-> pos.entry, comm_entry |-> pos.comm_entry,
                           eq_entry |-> open.eq_entry, closed |-> TRUE, exit |-> price, comm_exit |-> comm_exit,
                           pnl |-> pnl, eq_after |-> eq, forced |-> forced,
                           trade |-> Len(trades) + 1 ]]

FillExit ==
    /\ pc = "fill"
    /\ ~(pending_signal = "entry" /\ position = NoPosition)
    /\ pending_signal = "exit" /\ position # NoPosition
    /\ DrawOpen(i)
    /\ ExitAt(FillPrice(i), i, FALSE)
    /\ fills' = Append(fills, [ kind |-> "exit", decided |-> orderBar,
                                readMax |-> orderReadMax, bar |-> i,
                                price |-> FillPrice(i) ])
    /\ position' = NoPosition
    /\ pending_signal' = "none"
    /\ pc' = "signal"
    /\ UNCHANGED <<optVars, runVars, metVars, svcVars, barLog, firstRun>>
    /\ UNCHANGED <<closes, cfg, i, final_equity, orderBar, orderReadMax>>

\* Step 1, else branch
ClearStale ==
    /\ pc = "fill"
    /\ ~(pending_signal = "entry" /\ position = NoPosition)
    /\ ~(pending_signal = "exit" /\ position # NoPosition)
    /\ pending_signal' = "none"
    /\ pc' = "signal"
    /\ UNCHANGED <<optVars, runVars, metVars, svcVars, barLog, firstRun>>
    /\ UNCHANGED <<closes, opens, cfg, i, position, equity, trades, equity_curve,
                   final_equity, orderBar, orderReadMax, fills, ledger>>

\* Step 2 on bar i, then the loop's next iteration
DetectSignal ==
    /\ pc = "signal"
    /\ LET sig == DetectedSignal(i, position # NoPosition)
       IN  IF sig = "keep"
           THEN UNCHANGED <<pending_signal, orderBar, orderReadMax>>
           ELSE /\ pending_signal' = sig
                /\ orderBar' = i
                /\ orderReadMax' = SetMax(SignalReads(i))
    /\ i' = i + 1
    /\ pc' = IF i + 1 < n THEN "fill" ELSE "close"
    /\ barLog' = Append(barLog, [bar |-> i, equity |-> equity, position |-> position])
    /\ UNCHANGED <<optVars, runVars, metVars, svcVars, firstRun>>
    /\ UNCHANGED <<closes, opens, cfg, position, equity, trades, equity_curve,
                   final_equity, fills, ledger>>

\* after the loop: `if position is not None:` closes at closes[-1]
CloseOpenPosition ==
    /\ pc = "close"
    /\ position # NoPosition
    /\ ExitAt(LastClose, n - 1, TRUE)
    /\ pc' = "return"
    /\ UNCHANGED <<optVars, runVars, metVars, svcVars, barLog, firstRun>>
    /\ UNCHANGED <<closes, opens, cfg, i, position, pending_signal, final_equity,
                   orderBar, orderReadMax, fills>>

NoOpenPosition ==
    /\ pc = "close"
    /\ position = NoPosition
    /\ pc' = "return"
    /\ UNCHANGED <<optVars, runVars, metVars, svcVars, barLog, firstRun>>
    /\ UNCHANGED <<closes, opens, cfg, i, position, equity, pending_signal, trades,
                   equity_curve, final_equity, orderBar, orderReadMax, fills, ledger>>

\* return trades, round(equity, 2), equity_curve
Return ==
    /\ pc = "return"
    /\ final_equity' = <<RoundTo(equity, 2)>>
    /\ pc' = "done"
    /\ UNCHANGED <<optVars, runVars, metVars, svcVars, barLog, firstRun>>
    /\ UNCHANGED <<closes, opens, cfg, i, position, equity, pending_signal, trades,
                   equity_curve, orderBar, orderReadMax, fills, ledger>>

SimNext ==
    \/ FillEntry
    \/ FillExit
    \/ ClearStale
    \/ DetectSignal
    \/ CloseOpenPosition
    \/ NoOpenPosition
    \/ Return

SimSpec == SimInit /\ [][SimNext]_vars

\* run_sma_cross is called a second time with the arguments of the call that
\* has returned: every local is assigned anew, the arguments are the same
Rerun ==
    /\ pc = "done"
    /\ firstRun = <<>>
    /\ firstRun' = << [ trades |-> trades, final_equity |-> final_equity[1],
                        equity_curve |-> equity_curve ] >>
    /\ trades' = <<>>
    /\ position' = NoPosition
    /\ equity' = InitialEquity(cfg)
    /\ equity_curve' = <<cfg.initial_capital>>
    /\ pending_signal' = "none"
    /\ i' = FirstBar(cfg)
    /\ pc' = IF FirstBar(cfg) < n THEN "fill" ELSE "close"
    /\ final_equity' = <<>>
    /\ orderBar' = -1
    /\ orderReadMax' = -1
    /\ fills' = <<>>
    /\ ledger' = <<>>
    /\ barLog' = <<>>
    /\ UNCHANGED <<optVars, runVars, metVars, svcVars>>
    /\ UNCHANGED <<closes, opens, cfg>>

TwinNext ==
    \/ SimNext
    \/ Rerun

TwinSpec == SimInit /\ [][TwinNext]_vars

\* run_sma_cross on six-bar series over the price levels 8, 10, 12, 14 with
\* fast = 2, slow = 3, initial_capital = 10000, a percent commission of 0.001
\* and 100 percent-of-equity sizing
ScenarioCloses == <<10, 10, 10, 12, 8, 14>>

ScenarioBarIdx == 0 .. (Len(ScenarioCloses) - 1)

ScenarioPrices == {ScenarioCloses[k] : k \in 1 .. Len(ScenarioCloses)}

ScenarioCfg == [ fast |-> 2, slow |-> 3, initial_capital |-> R(10000),
                 commission_value |-> <<1, 1000>>, commission_type |-> "percent",
                 qty_type |-> "percent_of_equity", qty_value |-> R(100) ]

ScenarioInit ==
    /\ OptIdle
    /\ RunIdle
    /\ MetIdle
    /\ SvcIdle
    /\ closes \in [ScenarioBarIdx -> ScenarioPrices]
    /\ opens = [k \in ScenarioBarIdx |-> 0]
    /\ cfg = ScenarioCfg
    /\ i = FirstBar(cfg)
    /\ pc = IF FirstBar(cfg) < n THEN "fill" ELSE "close"
    /\ position = NoPosition
    /\ equity = cfg.initial_capital
    /\ equity_curve = <<cfg.initial_capital>>
    /\ pending_signal = "none"
    /\ trades = <<>>
    /\ final_equity = <<>>
    /\ orderBar = -1
    /\ orderReadMax = -1
    /\ fills = <<>>
    /\ ledger = <<>>
    /\ barLog = <<>>
    /\ firstRun = <<>>

ScenarioSpec == ScenarioInit /\ [][SimNext]_vars

\* run_sma_cross on arguments the request accepts unchecked: a fast period
\* above the slow one (run_backtest passes fast and slow on as they come) and
\* a commission larger than the capital
EdgePeriods == {<<1, 2>>, <<3, 2>>}

\* (commission_type, commission_value)
EdgeCommissions == {<<"percent", <<1, 10>>>>, <<"fixed", R(60)>>}

EdgeInit ==
    /\ OptIdle
    /\ RunIdle
    /\ MetIdle
    /\ SvcIdle
    /\ closes \in [BarIdx -> Prices]
    /\ opens = [k \in BarIdx |-> 0]
    /\ \E p \in EdgePeriods, qt \in QtyTypes, c \in EdgeCommissions,
          ic \in Capitals, qv \in QtyValues :
          cfg = [ fast |-> p[1], slow |-> p[2], initial_capital |-> ic,
                  commission_value |-> c[2], commission_type |-> c[1],
                  qty_type |-> qt, qty_value |-> qv ]
    /\ i = FirstBar(cfg)
    /\ pc = IF FirstBar(cfg) < n THEN "fill" ELSE "close"
    /\ position = NoPosition
    /\ equity = cfg.initial_capital
    /\ equity_curve = <<cfg.initial_capital>>
    /\ pending_signal = "none"
    /\ trades = <<>>
    /\ final_equity = <<>>
    /\ orderBar = -1
    /\ orderReadMax = -1
    /\ fills = <<>>
    /\ ledger = <<>>
    /\ barLog = <<>>
    /\ firstRun = <<>>

EdgeSpec == EdgeInit /\ [][SimNext]_vars

\* ------------------------------------------------------------------------
\* run_optuna_optimization: inputs and helpers
\* ------------------------------------------------------------------------
\* chunk_size
ChunkSize == 10

\* values metrics[sort_by] takes
Scores == {1, 2}

SortKeys == {"profit_pct", "max_drawdown"}

\* direction = "minimize" if sort_by in minimize_metrics else "maximize"
Direction(sort_by) == IF sort_by \in {"max_drawdown"} THEN "minimize" ELSE "maximize"

direction == Direction(req.sort_by)

\* _is_better(a, b)
IsBetter(a, b) == IF direction = "maximize" THEN a > b ELSE a < b

PosInf == <<"inf", 1>>

NegInf == <<"inf", -1>>

Num(v) == <<"num", v>>

\* mutant: the sentinel of the other direction
SentinelSwapped(dir) == IF dir = "minimize" THEN NegInf ELSE PosInf

\* float("inf") if direction == "minimize" else float("-inf")
Sentinel(dir) == IF dir = "minimize" THEN PosInf ELSE NegInf

\* mutant: an error that is no type error leaves objective
OnExceptionPropagating(kind, number) ==
    IF kind = "type_error" /\ number <= 1 THEN "fallback" ELSE "raise"

\* the except branch of objective: what is done with an exception of the
\* call, classified as a numba typing error ("type_error") or not
OnException(kind, number) ==
    IF kind = "type_error" /\ number <= 1 THEN "fallback" ELSE "sentinel"

\* what a call of run_fn followed by calc_metrics can do: return metrics with
\* some score, raise a numba typing error (the generated code only), raise
\* any other error
PossibleOutcomes(fn) ==
    {<<"ok", v>> : v \in Scores}
    \cup {<<"other_error", 0>>}
    \cup (IF fn = "supplied" THEN {<<"type_error", 0>>} ELSE {})

\* what it can do on the data and parameter ranges of this search
Outcomes(fn) == behaviour[fn]

RECURSIVE InsertByKey(_, _, _)
InsertByKey(e, sq, asc) ==
    IF sq = <<>> THEN <<e>>
    ELSE IF (IF asc THEN sq[1].score <= e.score ELSE sq[1].score >= e.score)
         THEN <<sq[1]>> \o InsertByKey(e, Tail(sq), asc)
         ELSE <<e>> \o sq

RECURSIVE StableSort(_, _)
StableSort(es, asc) ==
    IF es = <<>> THEN <<>>
    ELSE InsertByKey(es[Len(es)], StableSort(SubSeq(es, 1, Len(es) - 1), asc), asc)

\* mutant: the sort ignores the direction
SortEliteAscending(es, dir) == StableSort(es, TRUE)

\* elite_store.sort(key=lambda x: x[0], reverse=(direction == "maximize"))
SortElite(es, dir) == StableSort(es, dir # "maximize")

\* mutant: the batch is always a full chunk
MinIsFirst(a, b) == a

Min(a, b) == IF a < b THEN a ELSE b

\* top_results = elite_store[:top_n], then rank = i + 1
Report(es, top_n) ==
    [k \in 1 .. Min(top_n, Len(es)) |->
        [score |-> es[k].score, trial |-> es[k].trial, rank |-> k]]

Event(type, done, total, results) ==
    [type |-> type, completed |-> done, total |-> total, results |-> results]

\* progress = min(99, int((completed[0] / n_trials) * 100))
ProgressPct(done, total) == Min(99, (done * 100) \div total)

\* mutant: the event counts the trials of the batch, not the completed ones
ProgressEventOfBatch(done, total) ==
    [type |-> "progress", progress |-> ProgressPct(done, total),
     completed |-> batch, total |-> total]

\* {'type': 'progress', 'progress': ..., 'completed': ..., 'total': ...}
ProgressEvent(done, total) ==
    [type |-> "progress", progress |-> ProgressPct(done, total),
     completed |-> done, total |-> total]

\* the log line of a batch: progress, completed/total and, when best_value[0]
\* is not None, the best score
BatchLogEvent(done, total, best) ==
    [type |-> "log", progress |-> ProgressPct(done, total),
     completed |-> done, total |-> total, best |-> best]

\* ------------------------------------------------------------------------
\* run_optuna_optimization: the state machine
\* ------------------------------------------------------------------------
\* the simulator at rest, while a search alone is run
SimIdle ==
    /\ closes = <<>>
    /\ opens = <<>>
    /\ cfg = <<>>
    /\ i = 0
    /\ pc = "idle"
    /\ position = NoPosition
    /\ equity = R(0)
    /\ pending_signal = "none"
    /\ trades = <<>>
    /\ equity_curve = <<>>
    /\ final_equity = <<>>
    /\ orderBar = -1
    /\ orderReadMax = -1
    /\ fills = <<>>
    /\ ledger = <<>>
    /\ barLog = <<>>
    /\ firstRun = <<>>

OptInit ==
    /\ SimIdle
    /\ RunIdle
    /\ MetIdle
    /\ SvcIdle
    /\ req \in [n_trials : 1 .. MaxTrials, top_n : 0 .. MaxTopN, sort_by : SortKeys]
    /\ dpc = "loop"
    /\ remaining = req.n_trials
    /\ batch = 0
    /\ toSubmit = 0
    /\ nextTrial = 0
    /\ worker = [wk \in Workers |-> Idle]
    /\ run_fn = "supplied"
    /\ results_store = <<>>
    /\ elite_store = <<>>
    /\ completed = 0
    /\ best_value = <<>>
    /\ trial_times = 0
    /\ events = <<Event("log", 0, req.n_trials, <<>>)>>
    /\ raised = FALSE
    /\ trialLog = <<>>
    /\ inserted = [v \in Scores |-> 0]
    /\ cpu_count = Cardinality(Workers)
    /\ behaviour = [fn \in {"supplied", "fallback"} |-> PossibleOutcomes(fn)]
    /\ cancel = FALSE
    /\ json_safe = TRUE
    /\ batchLog = <<>>
    /\ told = <<>>

\* while remaining > 0: batch = min(chunk_size, remaining); study.optimize(...)
BeginBatch ==
    /\ dpc = "loop"
    /\ remaining > 0
    /\ batch' = Min(ChunkSize, remaining)
    /\ toSubmit' = Min(ChunkSize, remaining)
    /\ dpc' = "optimize"
    /\ batchLog' = Append(batchLog, Min(ChunkSize, remaining))
    /\ UNCHANGED <<req, remaining, nextTrial, worker, run_fn, results_store,
                   elite_store, completed, best_value, trial_times, events, raised,
                   trialLog, inserted>>
    /\ UNCHANGED <<simVars, runVars, metVars, svcVars, optEnv, told>>

\* study.optimize hands the next trial to a free thread (the pool's threads are
\* interchangeable: the lowest free one takes it); the trial gets its number
StartTrial(wk) ==
    /\ dpc = "optimize"
    /\ toSubmit > 0
    /\ ~raised
    /\ wk <= cpu_count
    /\ worker[wk].pc = "idle"
    /\ \A other \in Workers : worker[other].pc = "idle" => wk <= other
    /\ worker' = [worker EXCEPT ![wk] = [pc |-> "call", num |-> nextTrial,
                                         val |-> 0, tmp |-> 0]]
    /\ nextTrial' = nextTrial + 1
    /\ toSubmit' = toSubmit - 1
    /\ trialLog' = Append(trialLog, [fn |-> "none", first |-> "none",
                                     second |-> "none", ret |-> <<"none", 0>>])
    /\ UNCHANGED <<req, dpc, remaining, batch, run_fn, results_store, elite_store,
                   completed, best_value, trial_times, events, raised, inserted>>
    /\ UNCHANGED <<simVars, runVars, metVars, svcVars, optEnv, batchLog, told>>

\* objective, from its start to results_store.append (a successful call), to
\* the return of the sentinel, or to the start of the fallback
CallRunFn(wk) ==
    LET me == worker[wk] IN
    /\ me.pc = "call"
    /\ \E out \in Outcomes(run_fn) :
          LET log == [trialLog[me.num + 1] EXCEPT !.fn = run_fn, !.first = out[1]]
              act == OnException(out[1], me.num)
          IN
          IF out[1] = "ok"
          THEN /\ results_store' = Append(results_store,
                                          [trial |-> me.num, score |-> out[2]])
               /\ worker' = [worker EXCEPT ![wk].pc = "elite_append",
                                           ![wk].val = out[2]]
               /\ trialLog' = [trialLog EXCEPT ![me.num + 1] = log]
               /\ UNCHANGED <<raised, told>>
          ELSE /\ UNCHANGED results_store
               /\ worker' = [worker EXCEPT ![wk] =
                               IF act = "fallback"
                               THEN [me EXCEPT !.pc = "fallback"]
                               ELSE Idle]
               /\ trialLog' = [trialLog EXCEPT ![me.num + 1] =
                                  IF act = "sentinel"
                                  THEN [log EXCEPT !.ret = Sentinel(direction)]
                                  ELSE IF act = "raise"
                                  THEN [log EXCEPT !.ret = <<"raise", 0>>]
                                  ELSE log]
               /\ raised' = (raised \/ act = "raise")
               /\ told' = IF act = "sentinel" THEN Append(told, me.num) ELSE told
    /\ UNCHANGED <<req, dpc, remaining, batch, toSubmit, nextTrial, run_fn,
                   elite_store, completed, best_value, trial_times, events, inserted>>
    /\ UNCHANGED <<simVars, runVars, metVars, svcVars, optEnv, batchLog>>

\* the fallback: run_fn = fb_ns["run_strategy"], then the trial is run again
Fallback(wk) ==
    LET me == worker[wk] IN
    /\ me.pc = "fallback"
    /\ run_fn' = "fallback"
    /\ \E out \in Outcomes("fallback") :
          IF out[1] = "ok"
          THEN /\ results_store' = Append(results_store,
                                          [trial |-> me.num, score |-> out[2]])
               /\ worker' = [worker EXCEPT ![wk].pc = "elite_append",
                                           ![wk].val = out[2]]
               /\ trialLog' = [trialLog EXCEPT ![me.num + 1].second = "ok"]
               /\ UNCHANGED told
          ELSE /\ UNCHANGED results_store
               /\ worker' = [worker EXCEPT ![wk] = Idle]
               /\ trialLog' = [trialLog EXCEPT ![me.num + 1].second = out[1],
                                               ![me.num + 1].ret = Sentinel(direction)]
               /\ told' = Append(told, me.num)
    /\ UNCHANGED <<req, dpc, remaining, batch, toSubmit, nextTrial, elite_store,
                   completed, best_value, trial_times, events, raised, inserted>>
    /\ UNCHANGED <<simVars, runVars, metVars, svcVars, optEnv, batchLog>>

\* elite_store.append((current_val, full_entry))
EliteAppend(wk) ==
    LET me == worker[wk] IN
    /\ me.pc = "elite_append"
    /\ elite_store' = Append(elite_store, [score |-> me.val, trial |-> me.num])
    /\ inserted' = [inserted EXCEPT ![me.val] = @ + 1]
    /\ worker' = [worker EXCEPT ![wk].pc = "elite_sort"]
    /\ UNCHANGED <<req, dpc, remaining, batch, toSubmit, nextTrial, run_fn,
                   results_store, completed, best_value, trial_times, events, raised,
                   trialLog>>
    /\ UNCHANGED <<simVars, runVars, metVars, svcVars, optEnv, batchLog, told>>

\* elite_store.sort(...)
EliteSort(wk) ==
    /\ worker[wk].pc = "elite_sort"
    /\ elite_store' = SortElite(elite_store, direction)
    /\ worker' = [worker EXCEPT ![wk].pc = "elite_check"]
    /\ UNCHANGED <<req, dpc, remaining, batch, toSubmit, nextTrial, run_fn,
                   results_store, completed, best_value, trial_times, events, raised,
                   trialLog, inserted>>
    /\ UNCHANGED <<simVars, runVars, metVars, svcVars, optEnv, batchLog, told>>

\* if len(elite_store) > top_n:
EliteCheck(wk) ==
    /\ worker[wk].pc = "elite_check"
    /\ worker' = [worker EXCEPT ![wk].pc =
                     IF Len(elite_store) > req.top_n THEN "elite_pop" ELSE "count_load"]
    /\ UNCHANGED <<req, dpc, remaining, batch, toSubmit, nextTrial, run_fn,
                   results_store, elite_store, completed, best_value, trial_times,
                   events, raised, trialLog, inserted>>
    /\ UNCHANGED <<simVars, runVars, metVars, svcVars, optEnv, batchLog, told>>

\* removed = elite_store.pop()
ElitePop(wk) ==
    /\ worker[wk].pc = "elite_pop"
    /\ IF elite_store # <<>>
       THEN /\ elite_store' = SubSeq(elite_store, 1, Len(elite_store) - 1)
            /\ worker' = [worker EXCEPT ![wk].pc = "count_load"]
            /\ UNCHANGED <<raised, trialLog>>
       ELSE \* IndexError: pop from empty list
            /\ UNCHANGED elite_store
            /\ worker' = [worker EXCEPT ![wk] = Idle]
            /\ raised' = TRUE
            /\ trialLog' = [trialLog EXCEPT ![worker[wk].num + 1].ret = <<"raise", 0>>]
    /\ UNCHANGED <<req, dpc, remaining, batch, toSubmit, nextTrial, run_fn,
                   results_store, completed, best_value, trial_times, events, inserted>>
    /\ UNCHANGED <<simVars, runVars, metVars, svcVars, optEnv, batchLog, told>>

\* completed[0] += 1: the read
CountLoad(wk) ==
    /\ worker[wk].pc = "count_load"
    /\ worker' = [worker EXCEPT ![wk].pc = "count_store", ![wk].tmp = completed]
    /\ UNCHANGED <<req, dpc, remaining, batch, toSubmit, nextTrial, run_fn,
                   results_store, elite_store, completed, best_value, trial_times,
                   events, raised, trialLog, inserted>>
    /\ UNCHANGED <<simVars, runVars, metVars, svcVars, optEnv, batchLog, told>>

\* completed[0] += 1: the write; then trial_times.append(t_elapsed)
CountStore(wk) ==
    /\ worker[wk].pc = "count_store"
    /\ completed' = worker[wk].tmp + 1
    /\ trial_times' = trial_times + 1
    /\ worker' = [worker EXCEPT ![wk].pc = "best_check", ![wk].tmp = 0]
    /\ UNCHANGED <<req, dpc, remaining, batch, toSubmit, nextTrial, run_fn,
                   results_store, elite_store, best_value, events, raised, trialLog,
                   inserted>>
    /\ UNCHANGED <<simVars, runVars, metVars, svcVars, optEnv, batchLog, told>>

\* if best_value[0] is None or _is_better(current_val, best_value[0]):
\* when it is false objective returns current_val
BestCheck(wk) ==
    LET me == worker[wk] IN
    /\ me.pc = "best_check"
    /\ IF best_value = <<>> \/ IsBetter(me.val, best_value[1])
       THEN /\ worker' = [worker EXCEPT ![wk].pc = "best_set"]
            /\ UNCHANGED <<trialLog, told>>
       ELSE /\ worker' = [worker EXCEPT ![wk] = Idle]
            /\ trialLog' = [trialLog EXCEPT ![me.num + 1].ret = Num(me.val)]
            /\ told' = Append(told, me.num)
    /\ UNCHANGED <<req, dpc, remaining, batch, toSubmit, nextTrial, run_fn,
                   results_store, elite_store, completed, best_value, trial_times,
                   events, raised, inserted>>
    /\ UNCHANGED <<simVars, runVars, metVars, svcVars, optEnv, batchLog>>

\* best_value[0] = current_val; return current_val
BestSet(wk) ==
    LET me == worker[wk] IN
    /\ me.pc = "best_set"
    /\ best_value' = <<me.val>>
    /\ worker' = [worker EXCEPT ![wk] = Idle]
    /\ trialLog' = [trialLog EXCEPT ![me.num + 1].ret = Num(me.val)]
    /\ told' = Append(told, me.num)
    /\ UNCHANGED <<req, dpc, remaining, batch, toSubmit, nextTrial, run_fn,
                   results_store, elite_store, completed, trial_times, events, raised,
                   inserted>>
    /\ UNCHANGED <<simVars, runVars, metVars, svcVars, optEnv, batchLog>>

AllIdle == \A wk \in Workers : worker[wk].pc = "idle"

\* study.optimize returns: remaining -= batch, the progress and log events;
\* when a trial raised, the exception leaves the generator instead
EndBatch ==
    /\ dpc = "optimize"
    /\ AllIdle
    /\ toSubmit = 0 \/ raised
    /\ IF raised
       THEN /\ dpc' = "error"
            /\ UNCHANGED <<remaining, events>>
       ELSE /\ dpc' = "loop"
            /\ remaining' = remaining - batch
            /\ events' = events \o
                  << ProgressEvent(completed, req.n_trials),
                     BatchLogEvent(completed, req.n_trials, best_value) >>
    /\ UNCHANGED <<req, batch, toSubmit, nextTrial, worker, run_fn, results_store,
                   elite_store, completed, best_value, trial_times, raised, trialLog,
                   inserted>>
    /\ UNCHANGED <<simVars, runVars, metVars, svcVars, optEnv, batchLog, told>>

\* json.dumps({'type': 'result', 'results': summary_results}) raises
\* TypeError: an entry of the report carries what json cannot serialize
DumpsRaises(report) == ~json_safe /\ report # <<>>

\* after the loop: the timing log, the ranks, the result and done events;
\* when the report cannot be serialized the exception leaves the generator
\* in place of them
Finish ==
    /\ dpc = "loop"
    /\ remaining <= 0
    /\ events' = events
          \o (IF trial_times > 0
              THEN <<Event("log", completed, req.n_trials, <<>>)>> ELSE <<>>)
          \o << Event("log", Len(results_store), req.n_trials, <<>>) >>
          \o (IF DumpsRaises(Report(elite_store, req.top_n)) THEN <<>>
              ELSE << Event("result", completed, req.n_trials,
                            Report(elite_store, req.top_n)),
                      Event("done", completed, req.n_trials, <<>>) >>)
    /\ dpc' = IF DumpsRaises(Report(elite_store, req.top_n)) THEN "error" ELSE "done"
    /\ UNCHANGED <<req, remaining, batch, toSubmit, nextTrial, worker, run_fn,
                   results_store, elite_store, completed, best_value, trial_times,
                   raised, trialLog, inserted>>
    /\ UNCHANGED <<simVars, runVars, metVars, svcVars, optEnv, batchLog, told>>

OptNext ==
    \/ BeginBatch
    \/ \E wk \in Workers : StartTrial(wk)
    \/ \E wk \in Workers : CallRunFn(wk)
    \/ \E wk \in Workers : Fallback(wk)
    \/ \E wk \in Workers : EliteAppend(wk)
    \/ \E wk \in Workers : EliteSort(wk)
    \/ \E wk \in Workers : EliteCheck(wk)
    \/ \E wk \in Workers : ElitePop(wk)
    \/ \E wk \in Workers : CountLoad(wk)
    \/ \E wk \in Workers : CountStore(wk)
    \/ \E wk \in Workers : BestCheck(wk)
    \/ \E wk \in Workers : BestSet(wk)
    \/ EndBatch
    \/ Finish

OptSpec == OptInit /\ [][OptNext]_vars

\* ------------------------------------------------------------------------
\* run_optuna_optimization on a machine with one CPU: n_jobs=-1 is one thread
\* and the trials of a batch run one after the other; searches of several
\* batches
\* ------------------------------------------------------------------------
\* decision functions that end the same way on every parameter combination;
\* the fallback is called only after a type error of the supplied function,
\* so only then is its behaviour drawn
SteadyBehaviours ==
    { [supplied |-> {s}, fallback |-> {f}] :
         s \in {<<"type_error", 0>>}, f \in PossibleOutcomes("fallback") }
    \cup
    { [supplied |-> {s}, fallback |-> {<<"other_error", 0>>}] :
         s \in PossibleOutcomes("supplied") \ {<<"type_error", 0>>} }

DriverInit ==
    /\ SimIdle
    /\ RunIdle
    /\ MetIdle
    /\ SvcIdle
    /\ req \in [n_trials : 1 .. MaxBatchTrials, top_n : 0 .. MaxTopN, sort_by : SortKeys]
    /\ dpc = "loop"
    /\ remaining = req.n_trials
    /\ batch = 0
    /\ toSubmit = 0
    /\ nextTrial = 0
    /\ worker = [wk \in Workers |-> Idle]
    /\ run_fn = "supplied"
    /\ results_store = <<>>
    /\ elite_store = <<>>
    /\ completed = 0
    /\ best_value = <<>>
    /\ trial_times = 0
    /\ events = <<Event("log", 0, req.n_trials, <<>>)>>
    /\ raised = FALSE
    /\ trialLog = <<>>
    /\ inserted = [v \in Scores |-> 0]
    /\ cpu_count = 1
    /\ behaviour \in SteadyBehaviours
    /\ cancel = FALSE
    /\ json_safe = TRUE
    /\ batchLog = <<>>
    /\ told = <<>>

\* the client of the event stream asks for the search to stop; nothing in
\* run_optuna_optimization reads the request
Cancel ==
    /\ dpc \in {"loop", "optimize"}
    /\ ~cancel
    /\ cancel' = TRUE
    /\ UNCHANGED <<req, dpc, remaining, batch, toSubmit, nextTrial, worker, run_fn,
                   results_store, elite_store, completed, best_value, trial_times,
                   events, raised, trialLog, inserted, cpu_count, behaviour,
                   json_safe, batchLog, told>>
    /\ UNCHANGED <<simVars, runVars, metVars, svcVars>>

DriverNext ==
    \/ OptNext
    \/ Cancel

DriverSpec == DriverInit /\ [][DriverNext]_vars

\* the event loop and the thread pool keep running what they were given
DriverFairSpec == DriverSpec /\ WF_vars(OptNext)

\* ------------------------------------------------------------------------
\* run_optimization: from the request to the start of the search
\* ------------------------------------------------------------------------
\* if len(df) < 50
MinBars == 50

\* mutant: a series of exactly 50 bars is refused too
TooFewBarsInclusive(count) == count <= MinBars

\* len(df) < 50
TooFewBars(count) == count < MinBars

\* lengths of the fetched series
BarCounts == {0, MinBars - 1, MinBars, MinBars + 1}

\* what a piece of strategy code does when compiled, executed and looked up
CodeKinds == {"good", "syntax_error", "exec_error", "no_run_strategy"}

\* how the calls of Gemini end: code of some kind, quota errors up to the
\* last retry, another error
GeminiOutcomes == CodeKinds \cup {"quota_error", "other_error"}

\* the words _is_quota_error looks for in str(e).lower()
QuotaWords == {"429", "quota", "resourceexhausted", "rate limit", "too many requests"}

\* an exception: its type and the words of QuotaWords in its message
Exception(type, words) == [type |-> type, words |-> words]

\* what model.generate_content raises: a rate-limit answer, anything else
GeminiErrors == { Exception("ResourceExhausted", {"429", "quota"}),
                  Exception("ValueError", {}) }

\* _is_quota_error(e)
IsQuotaError(e) == e.words \cap QuotaWords # {}

\* the RuntimeError of a persistent rate limit; its message holds none of
\* the words of QuotaWords
RetryExhausted == Exception("RuntimeError", {})

Code(origin, kind) == [origin |-> origin, kind |-> kind]

\* _get_fallback_strategy(): source that compiles and defines run_strategy
FallbackCode == Code("fallback", "good")

HTTPException(status, detail) == <<[status |-> status, detail |-> detail]>>

RunInit ==
    /\ SimIdle
    /\ OptIdle
    /\ MetIdle
    /\ SvcIdle
    /\ rpc = "fetch"
    /\ env \in [api_key : BOOLEAN, bypass_cache : BOOLEAN]
    /\ bars = -1
    /\ translate_cache \in {<<>>} \cup {<<Code("gemini", k)>> : k \in CodeKinds}
    /\ strategy_code = <<>>
    /\ http_error = <<>>
    /\ searched = <<>>
    /\ steps = <<>>

\* df = await fetch_candles(...); any exception becomes a 400
Fetch ==
    /\ rpc = "fetch"
    /\ steps' = Append(steps, "fetch")
    /\ \/ /\ http_error' = HTTPException(400, "fetch_failed")
          /\ rpc' = "failed"
          /\ UNCHANGED bars
       \/ /\ bars' \in BarCounts
          /\ rpc' = "check_bars"
          /\ UNCHANGED http_error
    /\ UNCHANGED <<env, translate_cache, strategy_code, searched>>
    /\ UNCHANGED <<simVars, optVars, metVars, svcVars>>

\* if len(df) < 50: raise HTTPException(400, "Insufficient data (< 50 bars)")
CheckBars ==
    /\ rpc = "check_bars"
    /\ steps' = Append(steps, "check_bars")
    /\ IF TooFewBars(bars)
       THEN /\ http_error' = HTTPException(400, "insufficient_data")
            /\ rpc' = "failed"
       ELSE /\ rpc' = "translate"
            /\ UNCHANGED http_error
    /\ UNCHANGED <<env, bars, translate_cache, strategy_code, searched>>
    /\ UNCHANGED <<simVars, optVars, metVars, svcVars>>

\* the cache after `if bypass_cache and key in _translate_cache: del ...`
CacheAfterBypass == IF env.bypass_cache THEN <<>> ELSE translate_cache

\* strategy_code = await translate_with_gemini(...): a cache hit; without API
\* key the fallback; else the call of Gemini, whose code is cached and whose
\* errors give the fallback. A RuntimeError would be answered with 503, but
\* the one a persistent quota error ends in is no quota error to
\* translate_with_gemini, which takes the fallback for it too
Translate ==
    /\ rpc = "translate"
    /\ steps' = Append(steps, "translate")
    /\ IF CacheAfterBypass # <<>>
       THEN /\ strategy_code' = CacheAfterBypass
            /\ translate_cache' = CacheAfterBypass
            /\ rpc' = "compile"
            /\ UNCHANGED http_error
       ELSE IF ~env.api_key
       THEN /\ strategy_code' = <<FallbackCode>>
            /\ translate_cache' = CacheAfterBypass
            /\ rpc' = "compile"
            /\ UNCHANGED http_error
       ELSE \E out \in GeminiOutcomes :
               IF out = "quota_error" /\ IsQuotaError(RetryExhausted)
               THEN /\ http_error' = HTTPException(503, "quota")
                    /\ rpc' = "failed"
                    /\ translate_cache' = CacheAfterBypass
                    /\ UNCHANGED strategy_code
               ELSE IF out \in {"quota_error", "other_error"}
               THEN /\ strategy_code' = <<FallbackCode>>
                    /\ translate_cache' = CacheAfterBypass
                    /\ rpc' = "compile"
                    /\ UNCHANGED http_error
               ELSE /\ strategy_code' = <<Code("gemini", out)>>
                    /\ translate_cache' = <<Code("gemini", out)>>
                    /\ rpc' = "compile"
                    /\ UNCHANGED http_error
    /\ UNCHANGED <<env, bars, searched>>
    /\ UNCHANGED <<simVars, optVars, metVars, svcVars>>

\* compiled = compile(strategy_code, "<strategy>", "exec"); SyntaxError -> 422
Compile ==
    /\ rpc = "compile"
    /\ steps' = Append(steps, "compile")
    /\ IF strategy_code[1].kind = "syntax_error"
       THEN /\ http_error' = HTTPException(422, "syntax_error")
            /\ rpc' = "failed"
       ELSE /\ rpc' = "exec"
            /\ UNCHANGED http_error
    /\ UNCHANGED <<env, bars, translate_cache, strategy_code, searched>>
    /\ UNCHANGED <<simVars, optVars, metVars, svcVars>>

\* exec(compiled, namespace); any exception -> 422
Exec ==
    /\ rpc = "exec"
    /\ steps' = Append(steps, "exec")
    /\ IF strategy_code[1].kind = "exec_error"
       THEN /\ http_error' = HTTPException(422, "exec_error")
            /\ rpc' = "failed"
       ELSE /\ rpc' = "lookup"
            /\ UNCHANGED http_error
    /\ UNCHANGED <<env, bars, translate_cache, strategy_code, searched>>
    /\ UNCHANGED <<simVars, optVars, metVars, svcVars>>

\* run_fn = namespace.get("run_strategy"); missing -> 422
Lookup ==
    /\ rpc = "lookup"
    /\ steps' = Append(steps, "lookup")
    /\ IF strategy_code[1].kind = "no_run_strategy"
       THEN /\ http_error' = HTTPException(422, "no_run_strategy")
            /\ rpc' = "failed"
       ELSE /\ rpc' = "stream"
            /\ UNCHANGED http_error
    /\ UNCHANGED <<env, bars, translate_cache, strategy_code, searched>>
    /\ UNCHANGED <<simVars, optVars, metVars, svcVars>>

\* event_stream: run_optuna_optimization(run_fn=run_fn, ...) is started
Stream ==
    /\ rpc = "stream"
    /\ steps' = Append(steps, "search")
    /\ searched' = <<strategy_code[1].origin>>
    /\ rpc' = "streaming"
    /\ UNCHANGED <<env, bars, translate_cache, strategy_code, http_error>>
    /\ UNCHANGED <<simVars, optVars, metVars, svcVars>>

RunNext ==
    \/ Fetch
    \/ CheckBars
    \/ Translate
    \/ Compile
    \/ Exec
    \/ Lookup
    \/ Stream

RunSpec == RunInit /\ [][RunNext]_vars

\* ------------------------------------------------------------------------
\* run_optimization with its event stream: the pipeline above, then the
\* search (on one thread, short searches) and the handler of what it raises
\* ------------------------------------------------------------------------
\* event_stream starts run_optuna_optimization, which runs to its first yield
StreamSearch ==
    /\ rpc = "stream"
    /\ steps' = Append(steps, "search")
    /\ searched' = <<strategy_code[1].origin>>
    /\ rpc' = "streaming"
    /\ req' \in [n_trials : 1 .. MaxTrials, top_n : 0 .. MaxTopN, sort_by : SortKeys]
    /\ dpc' = "loop"
    /\ remaining' = req'.n_trials
    /\ batch' = 0
    /\ toSubmit' = 0
    /\ nextTrial' = 0
    /\ worker' = [wk \in Workers |-> Idle]
    /\ run_fn' = "supplied"
    /\ results_store' = <<>>
    /\ elite_store' = <<>>
    /\ completed' = 0
    /\ best_value' = <<>>
    /\ trial_times' = 0
    /\ events' = <<Event("log", 0, req'.n_trials, <<>>)>>
    /\ raised' = FALSE
    /\ trialLog' = <<>>
    /\ inserted' = [v \in Scores |-> 0]
    /\ cpu_count' = 1
    /\ behaviour' \in SteadyBehaviours
    /\ cancel' = FALSE
    /\ json_safe' \in BOOLEAN
    /\ batchLog' = <<>>
    /\ told' = <<>>
    /\ UNCHANGED <<env, bars, translate_cache, strategy_code, http_error>>
    /\ UNCHANGED <<simVars, metVars, svcVars>>

\* except Exception as e: yield the error event
StreamError ==
    /\ rpc = "streaming"
    /\ dpc = "error"
    /\ rpc' = "stream_error"
    /\ steps' = Append(steps, "error_event")
    /\ UNCHANGED <<env, bars, translate_cache, strategy_code, http_error, searched>>
    /\ UNCHANGED <<simVars, optVars, metVars, svcVars>>

\* the types of the events the response has streamed so far: the two status
\* events, what run_optuna_optimization yielded, the error event
ResponseTypes ==
    IF rpc \notin {"streaming", "stream_error"} THEN <<>>
    ELSE <<"status", "status">>
         \o [k \in 1 .. Len(events) |-> events[k].type]
         \o (IF rpc = "stream_error" THEN <<"error">> ELSE <<>>)

StreamNext ==
    \/ Fetch
    \/ CheckBars
    \/ Translate
    \/ Compile
    \/ Exec
    \/ Lookup
    \/ StreamSearch
    \/ OptNext
    \/ StreamError

StreamSpec == RunInit /\ [][StreamNext]_vars

\* ------------------------------------------------------------------------
\* calc_metrics, calc_basic_metrics and objective's use of calc_metrics
\* ------------------------------------------------------------------------
\* longest trade list a call is given
MaxTradeCount == 3

\* pnl of a trade: a loss, exactly zero, a win
Pnls == {R(-10), R(0), R(10)}

\* the calendar day of a trade's exit_time
Days == 1 .. 3

\* trade lists in the order the trades were closed
TradeLists ==
    { ts \in UNION { [1 .. k -> [pnl : Pnls, exit_time : Days]] :
                       k \in 0 .. MaxTradeCount } :
        \A k \in 1 .. (Len(ts) - 1) : ts[k].exit_time <= ts[k + 1].exit_time }

\* equity curves a call is given (bar level)
Curves == { <<>>, <<R(100), R(0)>>, <<R(0), R(0), R(100)>>,
            <<R(100), R(50), R(100)>> }

MetricCapitals == {R(0), R(100)}

\* what a decision function hands back: a dict with the keys `keys`, None,
\* or an exception
Dict(ts, curve) ==
    [kind |-> "dict", keys |-> {"trades", "equity_curve"}, trades |-> ts,
     equity_curve |-> curve]

DictWithoutTrades(curve) ==
    [kind |-> "dict", keys |-> {"equity_curve"}, trades |-> <<>>,
     equity_curve |-> curve]

NoneResult == [kind |-> "none", keys |-> {}, trades |-> <<>>, equity_curve |-> <<>>]

RaisesResult == [kind |-> "raises", keys |-> {}, trades |-> <<>>, equity_curve |-> <<>>]

\* result.get(key, [])
Get(raw, key) == IF key \in raw.keys THEN raw[key] ELSE <<>>

RECURSIVE RSum(_)
RSum(sq) == IF sq = <<>> THEN R(0) ELSE RAdd(Head(sq), RSum(Tail(sq)))

PnlsOf(ts) == [k \in 1 .. Len(ts) |-> ts[k].pnl]

IsWin(p) == RLt(R(0), p)

IsLoss(p) == RLe(p, R(0))

\* wins = [p for p in pnls if p > 0]
Wins(ts) == SelectSeq(PnlsOf(ts), IsWin)

\* losses = [p for p in pnls if p <= 0]
Losses(ts) == SelectSeq(PnlsOf(ts), IsLoss)

\* the literal 1e-9
Epsilon == <<1, 1000000000>>

\* win_rate = len(wins) / len(pnls) * 100
WinRate(ts) == RMul(RNorm(Len(Wins(ts)), Len(ts)), R(100))

\* gross_profit = sum(wins) if wins else 0.0
GrossProfit(ts) == IF Wins(ts) # <<>> THEN RSum(Wins(ts)) ELSE R(0)

\* gross_loss = abs(sum(losses)) if losses else 1e-9
GrossLoss(ts) == IF Losses(ts) # <<>> THEN RAbs(RSum(Losses(ts))) ELSE Epsilon

\* round(gross_loss, 2)
RoundedGrossLoss(ts) ==
    IF GrossLoss(ts) = Epsilon THEN R(0) ELSE RoundTo(GrossLoss(ts), 2)

\* a quotient num / den that is reported rounded to 4 places; kept as the
\* pair because gross_profit / 1e-9 is out of the range of the arithmetic
Quotient(num, den) == [num |-> num, den |-> den]

ZeroQuotient == Quotient(R(0), R(1))

\* initial_capital plus the first k pnls
Running(ts, initial_capital, k) ==
    RAdd(initial_capital, RSum(SubSeq(PnlsOf(ts), 1, k)))

\* trade_equity: initial_capital, then round(running, 2) after each trade
TradeEquity(ts, initial_capital) ==
    [k \in 1 .. (Len(ts) + 1) |->
        IF k = 1 THEN initial_capital
        ELSE RoundTo(Running(ts, initial_capital, k - 1), 2)]

\* np.maximum.accumulate(eq_arr)[k - 1]
RECURSIVE PeakAt(_, _)
PeakAt(eq, k) ==
    IF k = 1 THEN eq[1]
    ELSE LET before == PeakAt(eq, k - 1)
         IN  IF RLt(before, eq[k]) THEN eq[k] ELSE before

\* (peak - eq_arr) / np.where(peak == 0, 1, peak) * 100, at index k - 1
DrawdownAt(eq, k) ==
    LET peak == PeakAt(eq, k)
    IN  RMul(RDiv(RSub(peak, eq[k]), IF peak = R(0) THEN R(1) ELSE peak), R(100))

RMaxOf(S) == CHOOSE x \in S : \A y \in S : RLe(y, x)

\* float(dd.max()), eq not empty
MaxDrawdown(eq) == RMaxOf({DrawdownAt(eq, k) : k \in 1 .. Len(eq)})

\* daily_eq after the first k trades, in insertion order: per exit day the
\* running equity after the last trade of that day
RECURSIVE DailyEq(_, _, _)
DailyEq(ts, initial_capital, k) ==
    IF k = 0 THEN <<>>
    ELSE LET before == DailyEq(ts, initial_capital, k - 1)
             day    == ts[k].exit_time
             now    == [day |-> day, value |-> Running(ts, initial_capital, k)]
         IN  IF \E j \in 1 .. Len(before) : before[j].day = day
             THEN [j \in 1 .. Len(before) |->
                      IF before[j].day = day THEN now ELSE before[j]]
             ELSE Append(before, now)

\* [v for _, v in sorted(daily_eq.items())]
RECURSIVE SortedVals(_)
SortedVals(daily) ==
    IF daily = <<>> THEN <<>>
    ELSE LET first == CHOOSE j \in 1 .. Len(daily) :
                          \A m \in 1 .. Len(daily) : daily[j].day <= daily[m].day
             rest  == [m \in 1 .. (Len(daily) - 1) |->
                          IF m < first THEN daily[m] ELSE daily[m + 1]]
         IN  <<daily[first].value>> \o SortedVals(rest)

\* list(daily_eq.values())
InsertionVals(daily) == [j \in 1 .. Len(daily) |-> daily[j].value]

\* np.diff(d_arr) / np.where(d_arr[:-1] == 0, 1, d_arr[:-1])
Returns(d_arr) ==
    [k \in 1 .. (Len(d_arr) - 1) |->
        RDiv(RSub(d_arr[k + 1], d_arr[k]),
             IF d_arr[k] = R(0) THEN R(1) ELSE d_arr[k])]

\* d_rets.mean()
Mean(rets) == RDiv(RSum(rets), R(Len(rets)))

\* d_rets.std() > 0: the returns are not all equal
StdPositive(rets) == \E j, k \in 1 .. Len(rets) : rets[j] # rets[k]

\* a Sharpe ratio mean / std(returns) * sqrt(252), reported rounded to 4
\* places; kept as the mean and the returns it is computed from. It is 0
\* exactly when the mean is 0.
SharpeOf(rets) == [mean |-> Mean(rets), returns |-> rets]

\* sharpe = 0.0
NoSharpe == [mean |-> R(0), returns |-> <<>>]

\* the Sharpe block of calc_metrics
Sharpe(ts, bar_curve, initial_capital) ==
    LET daily == DailyEq(ts, initial_capital, Len(ts))
    IN  IF ~(Len(bar_curve) > 2) THEN NoSharpe
        ELSE IF Len(daily) > 2
        THEN LET d_rets == Returns(<<initial_capital>> \o SortedVals(daily))
             IN  IF StdPositive(d_rets) THEN SharpeOf(d_rets) ELSE NoSharpe
        ELSE LET d_arr  == IF daily # <<>>
                           THEN <<initial_capital>> \o InsertionVals(daily)
                           ELSE TradeEquity(ts, initial_capital)
                 d_rets == Returns(d_arr)
             IN  IF Len(d_rets) > 0 /\ StdPositive(d_rets)
                 THEN SharpeOf(d_rets) ELSE NoSharpe

\* a call's end: the value it returned or the exception it raised
Returned(value) == [raised |-> "none", value |-> value]

Raised(kind) == [raised |-> kind, value |-> <<>>]

\* mutant: the zero-trade record reports no equity
ZeroTradeMetricsWithoutEquity(initial_capital) ==
    [ total_trades |-> 0, win_rate |-> R(0), profit_pct |-> R(0),
      profit_factor |-> ZeroQuotient, max_drawdown |-> R(0),
      sharpe_ratio |-> NoSharpe, final_equity |-> R(0),
      gross_profit |-> R(0), gross_loss |-> R(0) ]

\* the fields both calculators return for an empty trade list
ZeroTradeMetrics(initial_capital) ==
    [ total_trades |-> 0, win_rate |-> R(0), profit_pct |-> R(0),
      profit_factor |-> ZeroQuotient, max_drawdown |-> R(0),
      sharpe_ratio |-> NoSharpe, final_equity |-> initial_capital,
      gross_profit |-> R(0), gross_loss |-> R(0) ]

\* the record with the trade list and the equity curve added
WithLists(rec, ts, curve) ==
    [ total_trades |-> rec.total_trades, win_rate |-> rec.win_rate,
      profit_pct |-> rec.profit_pct, profit_factor |-> rec.profit_factor,
      max_drawdown |-> rec.max_drawdown, sharpe_ratio |-> rec.sharpe_ratio,
      final_equity |-> rec.final_equity, gross_profit |-> rec.gross_profit,
      gross_loss |-> rec.gross_loss, trades |-> ts, equity_curve |-> curve ]

\* (final_equity - initial_capital) / initial_capital * 100
ProfitPct(final, initial_capital) ==
    RMul(RDiv(RSub(final, initial_capital), initial_capital), R(100))

\* calc_metrics(result, initial_capital) on a dict; monthly_pnl, which
\* nothing below reads, is left out of the record
calc_metrics(raw, initial_capital) ==
    LET ts           == Get(raw, "trades")
        bar_curve    == Get(raw, "equity_curve")
        trade_equity == TradeEquity(ts, initial_capital)
        final        == trade_equity[Len(trade_equity)]
    IN  IF ts = <<>>
        THEN Returned(WithLists(ZeroTradeMetrics(initial_capital), <<>>, <<>>))
        ELSE IF initial_capital = R(0)
        THEN Raised("ZeroDivisionError")
        ELSE Returned(
          [ total_trades  |-> Len(ts),
            win_rate      |-> RoundTo(WinRate(ts), 2),
            profit_pct    |-> RoundTo(ProfitPct(final, initial_capital), 2),
            profit_factor |-> IF RLt(R(0), GrossLoss(ts))
                              THEN Quotient(GrossProfit(ts), GrossLoss(ts))
                              ELSE ZeroQuotient,
            max_drawdown  |-> RoundTo(MaxDrawdown(trade_equity), 2),
            sharpe_ratio  |-> Sharpe(ts, bar_curve, initial_capital),
            final_equity  |-> RoundTo(final, 2),
            gross_profit  |-> RoundTo(GrossProfit(ts), 2),
            gross_loss    |-> RoundedGrossLoss(ts),
            trades        |-> ts,
            equity_curve  |-> trade_equity ])

\* calc_basic_metrics(trades, equity_curve, initial_capital)
calc_basic_metrics(ts, curve, initial_capital) ==
    IF ts = <<>>
    THEN Returned(ZeroTradeMetrics(initial_capital))
    ELSE IF GrossLoss(ts) = R(0)
    THEN Raised("ZeroDivisionError")
    ELSE IF curve = <<>>
    THEN Raised("ValueError")
    ELSE IF initial_capital = R(0)
    THEN Raised("ZeroDivisionError")
    ELSE Returned(
      [ total_trades  |-> Len(ts),
        win_rate      |-> RoundTo(WinRate(ts), 2),
        profit_pct    |-> RoundTo(ProfitPct(curve[Len(curve)],
                                            initial_capital), 2),
        profit_factor |-> Quotient(GrossProfit(ts), GrossLoss(ts)),
        max_drawdown  |-> RoundTo(MaxDrawdown(curve), 2),
        sharpe_ratio  |-> NoSharpe,
        final_equity  |-> RoundTo(curve[Len(curve)], 2),
        gross_profit  |-> RoundTo(GrossProfit(ts), 2),
        gross_loss    |-> RoundedGrossLoss(ts) ])

\* objective from its call of run_fn to the entries it appends, for a
\* decision function that is not a numba function: what the trial puts into
\* results_store and elite_store, or the sentinel it returns
objective(raw, initial_capital, sort_by) ==
    IF raw.kind = "raises" \/ raw.kind = "none"
    THEN [kind |-> "sentinel", value |-> Sentinel(Direction(sort_by))]
    ELSE LET m == calc_metrics(raw, initial_capital)
         IN  IF m.raised # "none"
             THEN [kind |-> "sentinel", value |-> Sentinel(Direction(sort_by))]
             ELSE [kind |-> "entry", current_val |-> m.value[sort_by],
                   full_entry |-> m.value]

MetricsCalls ==
    { [fn |-> f, raw |-> Dict(ts, curve), initial_capital |-> ic, sort_by |-> sb] :
        f \in {"calc_metrics", "calc_basic_metrics", "objective"},
        ts \in TradeLists, curve \in Curves, ic \in MetricCapitals,
        sb \in {"profit_pct"} }
    \cup
    { [fn |-> f, raw |-> DictWithoutTrades(curve), initial_capital |-> ic,
       sort_by |-> sb] :
        f \in {"calc_metrics", "objective"}, curve \in Curves,
        ic \in MetricCapitals, sb \in SortKeys }
    \cup
    { [fn |-> "objective", raw |-> raw, initial_capital |-> ic, sort_by |-> sb] :
        raw \in {NoneResult, RaisesResult}, ic \in MetricCapitals, sb \in SortKeys }

MetricsInit ==
    /\ SimIdle
    /\ OptIdle
    /\ RunIdle
    /\ SvcIdle
    /\ mcall \in MetricsCalls
    /\ mret = <<>>

CalcMetrics ==
    /\ mcall # <<>> /\ mret = <<>>
    /\ mcall.fn = "calc_metrics"
    /\ mret' = <<calc_metrics(mcall.raw, mcall.initial_capital)>>
    /\ UNCHANGED <<simVars, optVars, runVars, svcVars, mcall>>

CalcBasicMetrics ==
    /\ mcall # <<>> /\ mret = <<>>
    /\ mcall.fn = "calc_basic_metrics"
    /\ mret' = <<calc_basic_metrics(mcall.raw.trades, mcall.raw.equity_curve,
                                    mcall.initial_capital)>>
    /\ UNCHANGED <<simVars, optVars, runVars, svcVars, mcall>>

Objective ==
    /\ mcall # <<>> /\ mret = <<>>
    /\ mcall.fn = "objective"
    /\ mret' = <<objective(mcall.raw, mcall.initial_capital, mcall.sort_by)>>
    /\ UNCHANGED <<simVars, optVars, runVars, svcVars, mcall>>

MetricsNext ==
    \/ CalcMetrics
    \/ CalcBasicMetrics
    \/ Objective

MetricsSpec == MetricsInit /\ [][MetricsNext]_vars

\* ------------------------------------------------------------------------
\* _call_gemini_with_retry, translate_with_gemini and _translate_cache
\* ------------------------------------------------------------------------
\* max_retries: int = 3
DefaultMaxRetries == 3

\* calls of translate_with_gemini and _call_gemini_with_retry in one run of
\* the server
MaxTranslateCalls == 3

\* the RuntimeError translate_with_gemini raises on a quota error
QuotaExhausted == Exception("RuntimeError", {})

\* response.text of the call numbered `call`
GeminiCode(kind, call) == [origin |-> "gemini", kind |-> kind, call |-> call]

\* a function that ends without a return statement returns None
None == [origin |-> "none", kind |-> "none", call |-> 0]

NoException == Exception("none", {})

\* how a call ends: with a value returned or with an exception raised
Ok(value) == [ok |-> TRUE, value |-> value, exc |-> NoException]

Err(exc) == [ok |-> FALSE, value |-> None, exc |-> exc]

\* how model.generate_content can end: text of some kind, an exception
GenerateOutcomes == {Ok(k) : k \in {GeminiCode(kind, 0) : kind \in CodeKinds}}
                    \cup {Err(e) : e \in GeminiErrors}

\* mutant: the bound of the retries is tested one attempt late
LastAttemptOneLater(a, retries) == a > retries

\* if attempt >= max_retries
LastAttempt(a, retries) == a >= retries

\* mutant: bypass_cache is not looked at
CacheSeenIgnoringBypass(bypass_cache) == translate_cache

\* _translate_cache[key] after `if bypass_cache and key in _translate_cache:
\* del _translate_cache[key]`
CacheSeen(bypass_cache) == IF bypass_cache THEN <<>> ELSE translate_cache

\* what a call of translate_with_gemini or _call_gemini_with_retry leaves alone
gemRest == <<simVars, optVars, metVars, rpc, env, bars, strategy_code, http_error,
             searched, steps, mktVars, pageVars, storeVars>>

GeminiInit ==
    /\ SimIdle
    /\ OptIdle
    /\ RunIdle
    /\ MetIdle
    /\ SvcIdle

\* _call_gemini_with_retry is entered: `for attempt in range(max_retries + 1)`
\* starts, or ends at once when the range is empty
EnterRetry(retries) ==
    /\ max_retries' = retries
    /\ attempt' = 0
    /\ gem_log' = <<>>
    /\ IF retries + 1 > 0
       THEN gpc' = "attempt" /\ gret' = <<>>
       ELSE gpc' = "returned" /\ gret' = <<Ok(None)>>

\* no call of _call_gemini_with_retry is running or has just ended
NoRetryCall ==
    /\ gpc' = "idle"
    /\ max_retries' = 0
    /\ attempt' = 0
    /\ gret' = <<>>
    /\ gem_log' = <<>>

\* a call of _call_gemini_with_retry(model, prompt, max_retries)
CallGeminiWithRetry ==
    /\ tpc = "idle"
    /\ gpc # "attempt"
    /\ tcalls < MaxTranslateCalls
    /\ tcalls' = tcalls + 1
    /\ \E retries \in 0 .. DefaultMaxRetries : EnterRetry(retries)
    /\ targs' = <<>>
    /\ tret' = <<>>
    /\ tbefore' = <<>>
    /\ UNCHANGED <<tpc, translate_cache>>
    /\ UNCHANGED gemRest

\* one iteration of the loop: the wait for the rate limiter, then
\* model.generate_content(prompt), its text returned or its exception handled
GenerateContent ==
    /\ gpc = "attempt"
    /\ \E out \in GenerateOutcomes :
          /\ gem_log' = Append(gem_log, out)
          /\ IF out.ok
             THEN /\ gret' = <<Ok(GeminiCode(out.value.kind, tcalls))>>
                  /\ gpc' = "returned"
                  /\ UNCHANGED attempt
             ELSE IF ~IsQuotaError(out.exc)
             THEN /\ gret' = <<Err(out.exc)>>
                  /\ gpc' = "raised"
                  /\ UNCHANGED attempt
             ELSE IF LastAttempt(attempt, max_retries)
             THEN /\ gret' = <<Err(RetryExhausted)>>
                  /\ gpc' = "raised"
                  /\ UNCHANGED attempt
             ELSE IF attempt + 1 < max_retries + 1
             THEN /\ attempt' = attempt + 1
                  /\ UNCHANGED <<gret, gpc>>
             ELSE \* the range is exhausted: the function ends without return
                  /\ gret' = <<Ok(None)>>
                  /\ gpc' = "returned"
                  /\ UNCHANGED attempt
    /\ UNCHANGED <<tpc, targs, tret, max_retries, tcalls, tbefore, translate_cache>>
    /\ UNCHANGED gemRest

\* translate_with_gemini(pine_script, bypass_cache) up to its await: the
\* bypass, the cache hit, the fallback without API key, the call of Gemini
TranslateStart ==
    /\ tpc = "idle"
    /\ gpc # "attempt"
    /\ tcalls < MaxTranslateCalls
    /\ tcalls' = tcalls + 1
    /\ tbefore' = translate_cache
    /\ \E bypass_cache \in BOOLEAN, api_key \in BOOLEAN :
          /\ targs' = [bypass_cache |-> bypass_cache, api_key |-> api_key]
          /\ translate_cache' = CacheSeen(bypass_cache)
          /\ IF CacheSeen(bypass_cache) # <<>>
             THEN /\ tret' = <<Ok(CacheSeen(bypass_cache)[1])>>
                  /\ NoRetryCall
                  /\ UNCHANGED tpc
             ELSE IF ~api_key
             THEN /\ tret' = <<Ok(FallbackCode)>>
                  /\ NoRetryCall
                  /\ UNCHANGED tpc
             ELSE /\ tret' = <<>>
                  /\ tpc' = "await"
                  /\ EnterRetry(DefaultMaxRetries)
    /\ UNCHANGED gemRest

\* translate_with_gemini after its await: the code is stored and returned;
\* a quota error becomes a RuntimeError, any other exception the fallback
TranslateResume ==
    /\ tpc = "await"
    /\ gpc \in {"returned", "raised"}
    /\ IF gret[1].ok /\ gret[1].value # None
       THEN /\ translate_cache' = <<gret[1].value>>
            /\ tret' = <<Ok(gret[1].value)>>
       ELSE /\ UNCHANGED translate_cache
            /\ tret' = IF IsQuotaError(gret[1].exc)
                       THEN <<Err(QuotaExhausted)>>
                       ELSE <<Ok(FallbackCode)>>
    /\ tpc' = "idle"
    /\ gpc' = "idle"
    /\ UNCHANGED <<targs, max_retries, attempt, gret, tcalls, tbefore, gem_log>>
    /\ UNCHANGED gemRest

\* objective, on a numba typing error: _translate_cache.pop(key, None)
EvictTranslation ==
    /\ translate_cache # <<>>
    /\ translate_cache' = <<>>
    /\ UNCHANGED gemVars
    /\ UNCHANGED gemRest

GeminiNext ==
    \/ CallGeminiWithRetry
    \/ GenerateContent
    \/ TranslateStart
    \/ TranslateResume
    \/ EvictTranslation

GeminiSpec == GeminiInit /\ [][GeminiNext]_vars

\* ------------------------------------------------------------------------
\* market.fetch_and_cache and the _use_kraken flag
\* ------------------------------------------------------------------------
\* fetch_and_cache calls of one run of the server
MaxFetchCalls == 3

\* how the await of a source and the upsert after it can end
SourceOutcomes == {"ok", "request_failed", "upsert_failed"}

\* mutant: the flag is not looked at
SkipsBinanceNever(flag) == FALSE

\* `if not _use_kraken:` is false: the call goes to Kraken at once
SkipsBinance(flag) == flag

\* the except clause of the Kraken block: logger.error, nothing raised
KrakenFailureRaises == FALSE

\* ping(): "source"
PingSource == IF use_kraken THEN "Kraken" ELSE "Binance.US"

MarketEvent(t, kind, flag) == [task |-> t, kind |-> kind, flag |-> flag]

\* what a call of fetch_and_cache leaves alone
mktRest == <<simVars, optVars, runVars, metVars, gemVars, pageVars, storeVars>>

MarketInit ==
    /\ SimIdle
    /\ OptIdle
    /\ RunIdle
    /\ MetIdle
    /\ SvcIdle

\* fetch_and_cache is called: `if not _use_kraken:` and the request sent to
\* Binance.US, or the request sent to Kraken
StartFetch(t) ==
    /\ fetcher[t] = "idle"
    /\ fcalls < MaxFetchCalls
    /\ fcalls' = fcalls + 1
    /\ IF SkipsBinance(use_kraken)
       THEN /\ fetcher' = [fetcher EXCEPT ![t] = "kraken"]
            /\ mlog' = mlog \o << MarketEvent(t, "start", use_kraken),
                                  MarketEvent(t, "kraken", use_kraken) >>
       ELSE /\ fetcher' = [fetcher EXCEPT ![t] = "binance"]
            /\ mlog' = mlog \o << MarketEvent(t, "start", use_kraken),
                                  MarketEvent(t, "binance", use_kraken) >>
    /\ UNCHANGED <<use_kraken, fraised>>
    /\ UNCHANGED mktRest

\* binance_us_klines and upsert_candles have ended: return, or the except
\* clause sets _use_kraken and the call goes on to Kraken
BinanceAnswer(t) ==
    /\ fetcher[t] = "binance"
    /\ \E out \in SourceOutcomes :
          IF out = "ok"
          THEN /\ fetcher' = [fetcher EXCEPT ![t] = "idle"]
               /\ mlog' = Append(mlog, MarketEvent(t, "return", use_kraken))
               /\ UNCHANGED use_kraken
          ELSE /\ use_kraken' = TRUE
               /\ fetcher' = [fetcher EXCEPT ![t] = "kraken"]
               /\ mlog' = mlog \o << MarketEvent(t, "binance_failed", TRUE),
                                     MarketEvent(t, "kraken", TRUE) >>
    /\ UNCHANGED <<fraised, fcalls>>
    /\ UNCHANGED mktRest

\* kraken_ohlc and upsert_candles have ended: the call returns, a failure
\* having been logged
KrakenAnswer(t) ==
    /\ fetcher[t] = "kraken"
    /\ \E out \in SourceOutcomes :
          /\ mlog' = mlog
                \o (IF out = "ok" THEN <<>>
                    ELSE <<MarketEvent(t, "kraken_failed", use_kraken)>>)
                \o << MarketEvent(t, IF out # "ok" /\ KrakenFailureRaises
                                     THEN "raise" ELSE "return", use_kraken) >>
          /\ fraised' = (fraised \/ (out # "ok" /\ KrakenFailureRaises))
    /\ fetcher' = [fetcher EXCEPT ![t] = "idle"]
    /\ UNCHANGED <<use_kraken, fcalls>>
    /\ UNCHANGED mktRest

MarketNext ==
    \/ \E t \in FetchTasks : StartFetch(t)
    \/ \E t \in FetchTasks : BinanceAnswer(t)
    \/ \E t \in FetchTasks : KrakenAnswer(t)

MarketSpec == MarketInit /\ [][MarketNext]_vars

\* ------------------------------------------------------------------------
\* optimize.fetch_candles: the pagination loops of _try_binance_us and
\* _try_kraken
\* ------------------------------------------------------------------------
\* candles open at the times 1 .. MaxTime, in seconds
MaxTime == 3

\* requests of the Kraken loop the model follows
MaxPages == 3

CandleTimes == 1 .. MaxTime

\* seconds to milliseconds
Ms(t) == t * 1000

\* the rows of one answer: up to two candles in ascending order of time
PagesOver(S) ==
    {<<>>} \cup {<<a>> : a \in S}
           \cup {<<pr[1], pr[2]>> : pr \in {q \in S \X S : q[1] < q[2]}}

\* r.json() of a Binance.US request: rows whose first column is in ms
BinanceAnswers == PagesOver({Ms(t) : t \in CandleTimes})

\* data["result"] of a Kraken request: the rows, in seconds, and "last"
KrakenAnswers == [candles : PagesOver(CandleTimes), last : 0 .. MaxTime]

\* [c for c in candles if c[0] * 1000 <= end_ms]
NotAfterEnd(c) == Ms(c) <= prange.end_ms

NewCandles(candles) == SelectSeq(candles, NotAfterEnd)

\* the answer holds only candles from startTime to endTime
BinanceHonest(data) ==
    \A k \in 1 .. Len(data) : current_start <= data[k] /\ data[k] <= prange.end_ms

\* the answer holds only candles after `since`
KrakenHonest(candles) == \A k \in 1 .. Len(candles) : candles[k] > since

\* what a call of fetch_candles leaves alone
pageRest == <<simVars, optVars, runVars, metVars, gemVars, mktVars, storeVars>>

\* fetch_candles(symbol, interval, start_ms, end_ms) is called and
\* _try_binance_us starts: current_start = start_ms
PageInit ==
    /\ SimIdle
    /\ OptIdle
    /\ RunIdle
    /\ MetIdle
    /\ GemIdle
    /\ MktIdle
    /\ StoreIdle
    /\ ppc = "binance"
    /\ prange \in { r \in [start_ms : {Ms(t) : t \in 0 .. 1},
                           end_ms : {Ms(t) : t \in CandleTimes}] :
                    r.start_ms < r.end_ms }
    /\ current_start = prange.start_ms
    /\ since = 0
    /\ all_candles = <<>>
    /\ pages = 0
    /\ honest = TRUE

\* the except clause of fetch_candles: _try_kraken starts
StartKraken ==
    /\ ppc' = "kraken"
    /\ since' = prange.start_ms \div 1000
    /\ all_candles' = <<>>
    /\ pages' = 0
    /\ honest' = TRUE
    /\ UNCHANGED <<prange, current_start>>

\* one iteration of `while current_start < end_ms`: the request fails, or
\* its rows are taken and the cursor is moved behind the last of them
BinancePage ==
    /\ ppc = "binance"
    /\ IF ~(current_start < prange.end_ms)
       THEN /\ ppc' = "binance_end"
            /\ UNCHANGED <<prange, current_start, since, all_candles, pages, honest>>
       ELSE \/ StartKraken
            \/ \E data \in BinanceAnswers :
                  /\ pages' = pages + 1
                  /\ honest' = (honest /\ BinanceHonest(data))
                  /\ all_candles' = all_candles \o data
                  /\ IF data = <<>> \/ data[Len(data)] <= current_start
                     THEN ppc' = "binance_end" /\ UNCHANGED current_start
                     ELSE ppc' = "binance" /\ current_start' = data[Len(data)] + 1
                  /\ UNCHANGED <<prange, since>>
    /\ UNCHANGED pageRest

\* after the loop of _try_binance_us: ValueError without rows (fetch_candles
\* goes on to Kraken), else the frame indexed by the rows' timestamps
BinanceEnd ==
    /\ ppc = "binance_end"
    /\ IF all_candles = <<>>
       THEN StartKraken
       ELSE ppc' = "done" /\ UNCHANGED <<prange, current_start, since, all_candles,
                                         pages, honest>>
    /\ UNCHANGED pageRest

\* one iteration of `while True`: the request fails or the answer holds an
\* error (both leave fetch_candles), or the rows up to end_ms are taken and
\* since becomes the answer's "last"
KrakenPage ==
    /\ ppc = "kraken"
    /\ pages < MaxPages
    /\ \/ /\ ppc' = "raised"
          /\ UNCHANGED <<prange, current_start, since, all_candles, pages, honest>>
       \/ \E ans \in KrakenAnswers :
             /\ pages' = pages + 1
             /\ honest' = (honest /\ KrakenHonest(ans.candles))
             /\ all_candles' = all_candles \o NewCandles(ans.candles)
             /\ IF NewCandles(ans.candles) = <<>> \/ Ms(ans.last) >= prange.end_ms
                THEN ppc' = "kraken_end" /\ UNCHANGED since
                ELSE ppc' = "kraken" /\ since' = ans.last
             /\ UNCHANGED <<prange, current_start>>
    /\ UNCHANGED pageRest

\* after the loop of _try_kraken
KrakenEnd ==
    /\ ppc = "kraken_end"
    /\ ppc' = IF all_candles = <<>> THEN "raised" ELSE "done"
    /\ UNCHANGED <<prange, current_start, since, all_candles, pages, honest>>
    /\ UNCHANGED pageRest

PageNext ==
    \/ BinancePage
    \/ BinanceEnd
    \/ KrakenPage
    \/ KrakenEnd

PageSpec == PageInit /\ [][PageNext]_vars

\* ------------------------------------------------------------------------
\* routers/strategy.py: the strategy store
\* ------------------------------------------------------------------------
\* _ACTIVITY_TTL_DAYS
ActivityTTLDays == 7

\* the clock reads the days 0 .. MaxClock
MaxClock == 7

\* requests to save_strategy the model follows
MaxSaves == 3

\* a datetime: <<day, microsecond>>
Times == (0 .. MaxClock + ActivityTTLDays) \X {0, 1}

\* now + timedelta(days=n)
PlusDays(t, days) == <<t[1] + days, t[2]>>

\* datetime.isoformat(): the fixed-width date and time, and the fraction
\* only when the microsecond is not zero
IsoFormat(t) == IF t[2] = 0 THEN <<t[1]>> ELSE <<t[1], t[2]>>

\* SQL NULL in the column expires_at
NULL == <<>>

\* a < b on TEXT values: the first differing character decides, and a proper
\* prefix is the smaller one
TextLess(a, b) ==
    \E k \in 1 .. Len(b) :
       /\ \A j \in 1 .. k - 1 : j <= Len(a) /\ a[j] = b[j]
       /\ k > Len(a) \/ a[k] < b[k]

\* StrategySaveRequest.type: the two types the front end saves
SaveTypes == {"strategy", "activity"}

\* StrategyUpdateRequest.name
Names == {"b"}

\* WHERE type = 'activity' AND (expires_at IS NULL OR expires_at > ?)
ListedIgnoringExpiry(row, now_iso) == row.type = "activity"

Listed(row, now_iso) ==
    /\ row.type = "activity"
    /\ row.expires_at = NULL \/ TextLess(now_iso, row.expires_at)

\* WHERE type = 'activity' AND expires_at IS NOT NULL AND expires_at < ?
Stale(row, now_iso) ==
    /\ row.type = "activity"
    /\ row.expires_at # NULL
    /\ TextLess(row.expires_at, now_iso)

\* ORDER BY created_at DESC LIMIT n over the rows ids: every order the
\* database may give to rows of equal created_at
NewestFirst(ids, lim) ==
    LET m == IF lim < Cardinality(ids) THEN lim ELSE Cardinality(ids)
    IN  { sq \in [1 .. m -> ids] :
             /\ \A j, k \in 1 .. m : j < k => sq[j] # sq[k]
             /\ \A j \in 1 .. m - 1 :
                   ~TextLess(db[sq[j]].created_at, db[sq[j + 1]].created_at)
             /\ \A x \in ids \ {sq[j] : j \in 1 .. m} :
                   \A j \in 1 .. m : ~TextLess(db[sq[j]].created_at, db[x].created_at) }

\* [json.loads(r["data"]) for r in rows]
DataOf(sq) == [k \in 1 .. Len(sq) |-> db[sq[k]].data]

\* the answer of a request
Response(op, now, id, status, rows, expires_at) ==
    [op |-> op, now |-> now, id |-> id, status |-> status, rows |-> rows,
     expires_at |-> expires_at]

\* what a request to the strategy store leaves alone
storeRest == <<simVars, optVars, runVars, metVars, gemVars, mktVars, pageVars>>

\* create_db_and_tables on a new file
StoreInit ==
    /\ SimIdle
    /\ OptIdle
    /\ RunIdle
    /\ MetIdle
    /\ SvcIdle

\* time passes between two requests: a microsecond, or the days of the TTL
Tick ==
    /\ \E t \in {<<clock[1], 1>>, <<clock[1] + ActivityTTLDays, clock[2]>>} :
          /\ t # clock
          /\ t[1] <= MaxClock
          /\ clock' = t
    /\ sret' = NoResponse
    /\ UNCHANGED <<db, nsaved, purged>>
    /\ UNCHANGED storeRest

\* POST "": the row is inserted, and an activity save deletes the expired
\* activities in the same transaction
save_strategy ==
    /\ nsaved < MaxSaves
    /\ \E type \in SaveTypes :
          LET id == nsaved + 1
              now == clock
              created_at == IsoFormat(now)
              expires_at == IF type = "activity"
                            THEN IsoFormat(PlusDays(now, ActivityTTLDays))
                            ELSE NULL
              entry == [id |-> id, type |-> type, name |-> "a",
                        created_at |-> created_at]
              row == [type |-> type, name |-> "a", created_at |-> created_at,
                      expires_at |-> expires_at, data |-> entry]
              with_row == [x \in DOMAIN db \cup {id} |->
                             IF x = id THEN row ELSE db[x]]
              stale == IF type = "activity"
                       THEN {x \in DOMAIN with_row : Stale(with_row[x], IsoFormat(now))}
                       ELSE {}
          IN  /\ db' = [x \in DOMAIN with_row \ stale |-> with_row[x]]
              /\ purged' = purged \cup stale
              /\ nsaved' = id
              /\ sret' = Response("save", now, id, "saved", <<>>, expires_at)
    /\ UNCHANGED clock
    /\ UNCHANGED storeRest

\* GET /activities?limit=n
list_activities ==
    /\ \E limit \in {1, MaxSaves} :
        \E sq \in NewestFirst({x \in DOMAIN db : Listed(db[x], IsoFormat(clock))}, limit) :
          sret' = Response("list_activities", clock, 0, "ok", DataOf(sq), NULL)
    /\ UNCHANGED <<db, clock, nsaved, purged>>
    /\ UNCHANGED storeRest

\* GET ""
list_strategies ==
    /\ \E sq \in NewestFirst({x \in DOMAIN db : db[x].type = "strategy"}, MaxSaves) :
          sret' = Response("list_strategies", clock, 0, "ok", DataOf(sq), NULL)
    /\ UNCHANGED <<db, clock, nsaved, purged>>
    /\ UNCHANGED storeRest

\* PUT /{strategy_id}: the name is replaced in the column and in data
update_strategy ==
    /\ \E id \in 1 .. MaxSaves, name \in Names :
          IF id \in DOMAIN db
          THEN /\ db' = [db EXCEPT ![id].name = name, ![id].data.name = name]
               /\ sret' = Response("update", clock, id, "updated", <<>>, NULL)
          ELSE /\ sret' = Response("update", clock, id, "404", <<>>, NULL)
               /\ UNCHANGED db
    /\ UNCHANGED <<clock, nsaved, purged>>
    /\ UNCHANGED storeRest

\* DELETE /{strategy_id}
delete_strategy ==
    /\ \E id \in 1 .. MaxSaves :
          IF id \in DOMAIN db
          THEN /\ db' = [x \in DOMAIN db \ {id} |-> db[x]]
               /\ sret' = Response("delete", clock, id, "deleted", <<>>, NULL)
          ELSE /\ sret' = Response("delete", clock, id, "404", <<>>, NULL)
               /\ UNCHANGED db
    /\ UNCHANGED <<clock, nsaved, purged>>
    /\ UNCHANGED storeRest

StoreNext ==
    \/ Tick
    \/ save_strategy
    \/ list_activities
    \/ list_strategies
    \/ update_strategy
    \/ delete_strategy

StoreSpec == StoreInit /\ [][StoreNext]_vars


\* ------------------------------------------------------------------------
\* Properties of run_sma_cross
\* ------------------------------------------------------------------------
RECURSIVE SumPnl(_)
SumPnl(ts) == IF ts = <<>> THEN R(0)
              ELSE RAdd(ts[1].pnl, SumPnl(Tail(ts)))

\* sum of the unrounded pnl of the round-trips before the k-th
RECURSIVE RealizedBefore(_)
RealizedBefore(k) == IF k <= 1 THEN R(0)
                     ELSE RAdd(ledger[k - 1].pnl, RealizedBefore(k - 1))

Tolerance == <<1, 1000000>>

\* C1: every completed run with at least one trade returns trades and a
\* final_equity with |sum(trade.pnl) - (final_equity - initial_capital)| < 1e-6
C1_AccountingInvariant ==
    (pc = "done" /\ Len(trades) >= 1) =>
        RLt(RAbs(RSub(SumPnl(trades), RSub(final_equity[1], cfg.initial_capital))),
            Tolerance)

\* C2: an order decided on bar b is filled on bar b+1 at that bar's open, and
\* the decision read no bar after b
C2_NoLookAhead ==
    /\ \A k \in 1 .. Len(fills) :
          /\ fills[k].bar = fills[k].decided + 1
          /\ fills[k].price = R(opens[fills[k].bar])
          /\ fills[k].readMax <= fills[k].decided
    /\ pending_signal # "none" => (orderReadMax <= orderBar /\ orderBar = i - 1)

\* an entry and an exit have filled, the exit at a price other than the close
\* of the bar that decided it
C2_Witness ==
    /\ Len(fills) >= 2
    /\ fills[2].kind = "exit"
    /\ fills[2].price # R(closes[fills[2].decided])

\* C3: the units of every entry are computed from the equity current at the
\* fill (initial capital plus the pnl realised so far)
C3_UnitsFromCurrentEquity ==
    \A k \in 1 .. Len(ledger) :
        LET e == ledger[k] IN
        /\ e.eq_before = RAdd(cfg.initial_capital, RealizedBefore(k))
        /\ cfg.qty_type = "percent_of_equity" =>
              RMul(RMul(e.units, e.entry), R(100)) = RMul(e.eq_before, cfg.qty_value)
        /\ cfg.qty_type = "cash" => RMul(e.units, e.entry) = cfg.qty_value
        /\ cfg.qty_type \notin {"percent_of_equity", "cash"} => e.units = cfg.qty_value

\* a second entry sized in percent of an equity that is no longer the initial capital
C3_Witness ==
    /\ cfg.qty_type = "percent_of_equity"
    /\ Len(ledger) >= 2
    /\ ledger[2].eq_before # cfg.initial_capital

EntryFills == {k \in 1 .. Len(fills) : fills[k].kind = "entry"}

ExitFills == {k \in 1 .. Len(fills) : fills[k].kind = "exit"}

\* C5: when the run finishes every entry has its trade; a position still open
\* after the last bar gives exactly one more trade, closed at the last close
\* with the pnl formula of a regular exit
C5_NoOpenPositionAtEnd ==
    pc \in {"return", "done"} =>
        /\ Len(trades) = Cardinality(EntryFills)
        /\ Len(trades) \in {Cardinality(ExitFills), Cardinality(ExitFills) + 1}
        /\ Len(trades) = Cardinality(ExitFills) + 1 =>
              LET t == trades[Len(trades)]
                  e == ledger[Len(ledger)]
                  x == R(closes[n - 1])
                  c == IF cfg.commission_type = "percent"
                       THEN RMul(RMul(e.units, x), cfg.commission_value)
                       ELSE cfg.commission_value
              IN  /\ t.exit_price = x
                  /\ t.exit_time = n - 1
                  /\ t.pnl = RoundTo(RSub(RSub(RMul(e.units, RSub(x, e.entry)),
                                               e.comm_entry), c), 4)

\* the run ended with an exit order still pending from the last bar
C5_Witness ==
    /\ pc = "done"
    /\ pending_signal = "exit"
    /\ Len(trades) = Cardinality(ExitFills) + 1

\* C6: one position at a time: an entry is pending only while flat, an exit
\* only while a position is held, and fills alternate entry, exit, entry, ...
C6_SinglePosition ==
    /\ Len(position) <= 1
    /\ pending_signal \in {"none", "entry", "exit"}
    /\ pending_signal = "entry" => position = NoPosition
    /\ pending_signal = "exit" => position # NoPosition
    /\ \A k \in 1 .. Len(fills) : (fills[k].kind = "entry") <=> (k % 2 = 1)
    /\ (pc \in {"fill", "signal", "close"}) =>
          ((position # NoPosition) <=> (Len(fills) % 2 = 1))

\* the PendingExit state, after a PendingEntry and a fill
C6_Witness ==
    /\ pending_signal = "exit"
    /\ position # NoPosition
    /\ pc = "fill"

\* ------------------------------------------------------------------------
\* Properties of run_optuna_optimization
\* ------------------------------------------------------------------------
TrialIds == 1 .. Len(trialLog)

\* trials for which objective returned a score / the sentinel
Succeeded == {t \in TrialIds : trialLog[t].ret[1] = "num"}

Sentinelled == {t \in TrialIds : trialLog[t].ret[1] = "inf"}

\* the results of the result event
FinalReport == events[Len(events) - 1].results

\* at most min(N, top_n) entries, ranks 1..k, best first under the direction
ReportWellFormed ==
    /\ events[Len(events) - 1].type = "result"
    /\ events[Len(events)].type = "done"
    /\ Len(FinalReport) <= Min(req.n_trials, req.top_n)
    /\ \A k \in 1 .. Len(FinalReport) : FinalReport[k].rank = k
    /\ \A k \in 1 .. Len(FinalReport) - 1 :
          ~IsBetter(FinalReport[k + 1].score, FinalReport[k].score)

C8_SentinelOnError ==
    /\ \A t \in TrialIds :
          (trialLog[t].first = "other_error" \/ trialLog[t].second = "other_error") =>
              trialLog[t].ret = (IF direction = "minimize" THEN PosInf ELSE NegInf)
    /\ ~raised
    /\ dpc # "error"
    /\ dpc = "done" => nextTrial = req.n_trials

\* a minimizing search whose first trial failed and whose second returned a score
C8_Witness ==
    /\ dpc = "done"
    /\ direction = "minimize"
    /\ Len(trialLog) = 2
    /\ trialLog[1].first = "other_error"
    /\ trialLog[1].ret = PosInf
    /\ trialLog[2].ret[1] = "num"

\* every call of the supplied decision function so far raised
SuppliedAlwaysRaised ==
    \A t \in TrialIds :
        trialLog[t].fn = "supplied" => trialLog[t].first \in {"type_error", "other_error"}

\* every call so far raised an error that is no type error
AlwaysRaisedOther ==
    \A t \in TrialIds : trialLog[t].first \in {"none", "other_error"}

\* C9: when the supplied decision function raises on every call, the search
\* runs all its trials, its result event has no elite entry and nothing is raised
C9_FaultIsolation ==
    SuppliedAlwaysRaised =>
        /\ ~raised
        /\ dpc # "error"
        /\ dpc = "done" => (nextTrial = req.n_trials /\ FinalReport = <<>>)

\* C9 as amended: when every call of the supplied decision function raises an
\* error that is not classified as a type error, the search runs all its
\* trials, its result event has no elite entry and nothing is raised
C9_FaultIsolationOtherErrors ==
    AlwaysRaisedOther =>
        /\ ~raised
        /\ dpc # "error"
        /\ elite_store = <<>>
        /\ dpc = "done" \/ ENABLED OptNext
        /\ dpc = "done" =>
              /\ nextTrial = req.n_trials
              /\ Sentinelled = TrialIds
              /\ events[Len(events) - 1].type = "result"
              /\ FinalReport = <<>>

\* a finished search of two trials that both raised
C9_Witness ==
    /\ dpc = "done"
    /\ Len(trialLog) = 2
    /\ trialLog[1].first = "other_error"
    /\ trialLog[2].first = "other_error"

\* the scores appended so far, best first under the direction
RECURSIVE Repeat(_, _)
Repeat(v, k) == IF k = 0 THEN <<>> ELSE <<v>> \o Repeat(v, k - 1)

RECURSIVE BestFirst(_)
BestFirst(S) ==
    IF S = {} THEN <<>>
    ELSE LET b == CHOOSE x \in S : \A y \in S : x = y \/ IsBetter(x, y)
         IN  Repeat(b, inserted[b]) \o BestFirst(S \ {b})

EliteScores == [k \in 1 .. Len(elite_store) |-> elite_store[k].score]

InsertInProgress ==
    \E wk \in Workers : worker[wk].pc \in {"elite_sort", "elite_check", "elite_pop"}

\* C10: after every completed insert elite_store holds at most top_n entries,
\* the top_n best scores of the successful trials inserted so far, best first
C10_EliteIsTopN ==
    (dpc # "idle" /\ ~InsertInProgress) =>
        /\ Len(elite_store) <= req.top_n
        /\ EliteScores = SubSeq(BestFirst(Scores), 1,
                                Min(req.top_n, Len(BestFirst(Scores))))

\* ------------------------------------------------------------------------
\* Properties of the elite ranking, the shared state and the fallback
\* ------------------------------------------------------------------------
\* C11: in the final report the entries are ordered by score under the
\* direction, entries of equal score in the order their trials were submitted
\* (the lower trial number first), and ranks 1..k follow that order
C11_TiesBySubmissionOrder ==
    dpc = "done" =>
        /\ \A k \in 1 .. Len(FinalReport) : FinalReport[k].rank = k
        /\ \A j, k \in 1 .. Len(FinalReport) :
              j < k =>
                 \/ IsBetter(FinalReport[j].score, FinalReport[k].score)
                 \/ /\ FinalReport[j].score = FinalReport[k].score
                    /\ FinalReport[j].trial < FinalReport[k].trial

\* threads between elite_store.append and the end of the trim
InElite == {wk \in Workers : worker[wk].pc \in {"elite_sort", "elite_check", "elite_pop"}}

\* threads between the read and the write of completed[0] += 1
InIncrement == {wk \in Workers : worker[wk].pc = "count_store"}

\* C12: inserts, sorts and trims of elite_store and increments of completed
\* exclude one another: at most one thread is inside each of them, and no
\* increment is lost, completed being the number of successful trials and
\* of summaries once the running trials have returned
C12_MutualExclusion ==
    dpc \in {"optimize", "loop", "done"} =>
        /\ Cardinality(InElite) <= 1
        /\ Cardinality(InIncrement) <= 1
        /\ AllIdle => /\ completed = Cardinality(Succeeded)
                      /\ completed = Len(results_store)

\* C15: a trial that fails with a type error is retried once on the built-in
\* function, for that trial only: every trial calls the supplied function
\* first, also after an earlier trial was retried
C15_FallbackForThatTrialOnly ==
    \A t \in TrialIds :
        /\ trialLog[t].fn \in {"none", "supplied"}
        /\ trialLog[t].second # "none" => trialLog[t].first = "type_error"

\* C19: the study is told the results in the order the trials were
\* dispatched: trial numbers return in increasing order
C19_TellInDispatchOrder ==
    \A j, k \in 1 .. Len(told) : j < k => told[j] < told[k]

\* ------------------------------------------------------------------------
\* Properties of the equity curve of run_sma_cross
\* ------------------------------------------------------------------------
\* equity and position at the end of bar k: as the loop left them, the
\* initial capital and no position on the bars before the loop starts
AtBar(k) ==
    IF \E j \in 1 .. Len(barLog) : barLog[j].bar = k
    THEN barLog[CHOOSE j \in 1 .. Len(barLog) : barLog[j].bar = k]
    ELSE [bar |-> k, equity |-> cfg.initial_capital, position |-> NoPosition]

\* cash equity when flat, equity + units * (close - entry) when in position
MarkToMarket(k) ==
    LET b == AtBar(k) IN
    IF b.position = NoPosition THEN b.equity
    ELSE RAdd(b.equity, RMul(b.position[1].units,
                             RSub(R(closes[k]), b.position[1].entry)))

\* C20: the returned equity curve has one value per bar of the series, the
\* cash equity on a bar without position, the mark-to-market value otherwise
C20_EquityCurvePerBar ==
    pc = "done" =>
        /\ Len(equity_curve) = n
        /\ \A k \in BarIdx : equity_curve[k + 1] = MarkToMarket(k)

\* ------------------------------------------------------------------------
\* Properties of the batch loop
\* ------------------------------------------------------------------------
ProgressIdx == {k \in 1 .. Len(events) : events[k].type = "progress"}

\* batches whose study.optimize call has returned
BatchesDone == Len(batchLog) - (IF dpc = "optimize" THEN 1 ELSE 0)

\* one progress event per finished batch, total = n_trials, completed at
\* most total and never decreasing, each followed by the log event of the batch
ProgressPerBatch ==
    /\ Cardinality(ProgressIdx) = BatchesDone
    /\ \A k \in ProgressIdx :
          /\ events[k].total = req.n_trials
          /\ events[k].completed <= events[k].total
          /\ k < Len(events)
          /\ events[k + 1].type = "log"
          /\ events[k + 1].completed = events[k].completed
    /\ \A j, k \in ProgressIdx : j < k => events[j].completed <= events[k].completed

BatchCount == (req.n_trials + ChunkSize - 1) \div ChunkSize

\* the batches dispatched so far have the sizes min(chunk_size, remaining)
BatchSizes ==
    \A k \in 1 .. Len(batchLog) :
        LET left == req.n_trials - ChunkSize * (k - 1)
        IN  batchLog[k] = IF left < ChunkSize THEN left ELSE ChunkSize

RankedIdx == {k \in 1 .. Len(events) : events[k].type \in {"result", "done"}}

\* C14: the loop ends, having dispatched exactly n_trials trials in
\* ceil(n_trials / 10) batches of min(10, remaining) trials; the result and
\* done events come only after that
C14_BatchLoopTerminates ==
    /\ [](/\ BatchSizes
          /\ nextTrial <= req.n_trials
          /\ RankedIdx # {} =>
                /\ dpc = "done"
                /\ nextTrial = req.n_trials
                /\ Len(told) = req.n_trials
                /\ Len(batchLog) = BatchCount
                /\ RankedIdx = {Len(events) - 1, Len(events)})
    /\ <>(dpc = "done")

\* a finished search of three batches, the last one of a single trial
C14_Witness ==
    /\ dpc = "done"
    /\ batchLog = <<ChunkSize, ChunkSize, 1>>
    /\ nextTrial = 2 * ChunkSize + 1

\* C18: the driver looks at the cancellation flag at every batch boundary:
\* once cancellation was asked for, no new batch is started
C18_NoBatchAfterCancel ==
    [][cancel => batchLog' = batchLog]_vars

\* ------------------------------------------------------------------------
\* Properties of run_optimization
\* ------------------------------------------------------------------------
Took(step) == \E k \in 1 .. Len(steps) : steps[k] = step

InsufficientData == http_error = HTTPException(400, "insufficient_data")

\* C16: a fetched series of fewer than 50 bars fails the request with the
\* insufficient-data error before the decision function is produced and
\* before any trial; a series of 50 bars or more never fails on this check
C16_MinimumBars ==
    /\ (Took("check_bars") /\ bars < 50) =>
          /\ InsufficientData
          /\ rpc = "failed"
          /\ steps = <<"fetch", "check_bars">>
          /\ strategy_code = <<>>
          /\ searched = <<>>
    /\ (bars >= 50 \/ ~Took("check_bars")) => ~InsufficientData

\* a series of 49 bars refused; a series of exactly 50 bars searched
C16_Witness ==
    \/ bars = 49 /\ InsufficientData
    \/ bars = 50 /\ searched # <<>>

\* C17: when the decision function cannot be produced from the script (the
\* translation fails, or its code does not compile, does not execute or
\* defines no run_strategy) the run is aborted with an error before any trial:
\* a search is only ever run on the function translated from the script
C17_NoSearchOnOtherFunction ==
    /\ searched # <<>> => searched[1] = "gemini" /\ strategy_code[1].kind = "good"
    /\ (rpc \in {"failed", "streaming"} /\ strategy_code # <<>>
           /\ strategy_code[1].kind # "good") =>
          /\ http_error # <<>>
          /\ searched = <<>>

\* ------------------------------------------------------------------------
\* C27: run_sma_cross evaluates no signal on a bar below slow and fills no
\* order on a bar below slow + 1: the bar the loop is on, every bar it has
\* processed and every bar an order was decided on are at least slow, and
\* every fill and every trade's entry and exit are on bar slow + 1 or later.
\* ------------------------------------------------------------------------
C27_EarliestSignalAndFill ==
    /\ pc \in {"fill", "signal"} => i >= cfg.slow
    /\ \A k \in 1 .. Len(barLog) : barLog[k].bar >= cfg.slow
    /\ orderBar = -1 \/ orderBar >= cfg.slow
    /\ \A k \in 1 .. Len(fills) :
          /\ fills[k].decided >= cfg.slow
          /\ fills[k].bar >= cfg.slow + 1
    /\ \A k \in 1 .. Len(trades) :
          /\ trades[k].entry_time >= cfg.slow + 1
          /\ trades[k].exit_time >= cfg.slow + 1

\* an order decided on bar slow and filled on bar slow + 1
C27_Witness ==
    \E k \in 1 .. Len(fills) :
        /\ fills[k].decided = cfg.slow
        /\ fills[k].bar = cfg.slow + 1

\* ------------------------------------------------------------------------
\* C26: with percent_of_equity sizing at 100 percent, when two consecutive
\* trades of a run are entered at the same price and the first was closed
\* with a positive pnl, the second holds strictly more units than the first.
\* ------------------------------------------------------------------------
FullEquitySizing == cfg.qty_type = "percent_of_equity" /\ cfg.qty_value = R(100)

\* round trips j and j + 1 entered at the same price, j closed with a gain
WonThenReentered(j) ==
    /\ j + 1 <= Len(ledger)
    /\ ledger[j].closed
    /\ RLt(R(0), trades[ledger[j].trade].pnl)
    /\ ledger[j + 1].entry = ledger[j].entry

C26_Compounding ==
    FullEquitySizing =>
        \A j \in 1 .. Len(ledger) :
            WonThenReentered(j) => RLt(ledger[j].units, ledger[j + 1].units)

C26_Witness ==
    /\ FullEquitySizing
    /\ \E j \in 1 .. Len(ledger) : WonThenReentered(j)

\* ------------------------------------------------------------------------
\* C25: a second call of run_sma_cross with the same bars and arguments
\* returns the same trade list, the same equity curve and the same final
\* equity as the first; while it runs, its trades and its curve are a prefix
\* of what the first call returned.
\* ------------------------------------------------------------------------
IsPrefix(a, b) == Len(a) <= Len(b) /\ \A k \in 1 .. Len(a) : a[k] = b[k]

IsScenario ==
    /\ closes = [k \in ScenarioBarIdx |-> ScenarioCloses[k + 1]]
    /\ cfg = ScenarioCfg

ScenarioPnl(units, entry, exit) ==
    RSub(RSub(RMul(units, RSub(exit, entry)),
              RMul(RMul(units, entry), <<1, 1000>>)),
         RMul(RMul(units, exit), <<1, 1000>>))

C28_ScenarioOneTrade ==
    (IsScenario /\ pc = "done") =>
        /\ Len(trades) = 1
        /\ Len(ledger) = 1
        /\ trades[1].side = "long"
        /\ fills = << [ kind |-> "entry", decided |-> 3, readMax |-> 3, bar |-> 4,
                        price |-> R(opens[4]) ] >>
        /\ trades[1].entry_time = 4
        /\ trades[1].entry_price = R(opens[4])
        /\ trades[1].exit_time = 5
        /\ trades[1].exit_price = R(14)
        /\ ledger[1].forced
        /\ ledger[1].units = RDiv(R(10000), R(opens[4]))
        /\ ledger[1].pnl = ScenarioPnl(ledger[1].units, R(opens[4]), R(14))
        /\ trades[1].pnl = RoundTo(ledger[1].pnl, 4)

C28_Witness ==
    /\ IsScenario
    /\ pc = "done"
    /\ Len(trades) = 1
    /\ opens[4] # 12

\* ------------------------------------------------------------------------
\* Properties of the metrics calculators (MetricsSpec)
\* ------------------------------------------------------------------------
\* the call is one of the two calculators and has returned or raised
CalculatorDone ==
    /\ mret # <<>>
    /\ mcall.fn \in {"calc_metrics", "calc_basic_metrics"}

\* C21: every equity curve reported by run_sma_cross and by calc_metrics,
\* with and without trades, is non-empty and starts with initial_capital.
SimCurveStartsAtCapital ==
    pc # "idle" =>
        /\ equity_curve # <<>>
        /\ equity_curve[1] = cfg.initial_capital

MetricsCurveStartsAtCapital ==
    (mret # <<>> /\ mcall.fn = "calc_metrics" /\ mret[1].raised = "none") =>
        /\ mret[1].value.equity_curve # <<>>
        /\ mret[1].value.equity_curve[1] = mcall.initial_capital

C21_EquityCurveStartsAtCapital ==
    /\ SimCurveStartsAtCapital
    /\ MetricsCurveStartsAtCapital

\* C22: given zero trades, calc_metrics and calc_basic_metrics return a
\* record with total_trades 0, every rate, ratio, profit and drawdown field 0
\* and final_equity equal to initial_capital, whatever the equity curve holds.
ZeroTradeCall ==
    /\ CalculatorDone
    /\ Get(mcall.raw, "trades") = <<>>

C22_ZeroTradeRecord ==
    ZeroTradeCall =>
        /\ mret[1].raised = "none"
        /\ mret[1].value.total_trades = 0
        /\ mret[1].value.win_rate = R(0)
        /\ mret[1].value.profit_pct = R(0)
        /\ mret[1].value.profit_factor.num = R(0)
        /\ mret[1].value.max_drawdown = R(0)
        /\ mret[1].value.sharpe_ratio.mean = R(0)
        /\ mret[1].value.gross_profit = R(0)
        /\ mret[1].value.gross_loss = R(0)
        /\ mret[1].value.final_equity = mcall.initial_capital

\* zero trades with an equity curve that ends away from initial_capital
C22_Witness ==
    /\ ZeroTradeCall
    /\ mcall.initial_capital # R(0)
    /\ mcall.raw.equity_curve # <<>>
    /\ mcall.raw.equity_curve[Len(mcall.raw.equity_curve)] # mcall.initial_capital

\* C23: for every non-empty trade list (and a non-zero initial_capital) the
\* calculators raise no division error, profit_factor is
\* gross_profit / max(gross_loss, 1e-9) and max_drawdown is taken with a zero
\* peak replaced by 1.
\* max(x, 1e-9) for x >= 0
AtLeastEpsilon(x) == IF x[1] <= x[2] \div 1000000000 THEN Epsilon ELSE x

\* abs(sum of the pnls that are <= 0)
SumOfLosses(ts) == RAbs(RSum(Losses(ts)))

\* p.num / p.den = q.num / q.den, for denominators that are 1e-9 or far above
SameQuotient(p, q) ==
    IF p.num = R(0) \/ q.num = R(0) THEN p.num = q.num
    ELSE IF p.den = Epsilon \/ q.den = Epsilon THEN p = q
    ELSE RMul(p.num, q.den) = RMul(q.num, p.den)

C23_NoDivisionError ==
    (CalculatorDone /\ mcall.raw.trades # <<>> /\ mcall.initial_capital # R(0)) =>
        /\ mret[1].raised # "ZeroDivisionError"
        /\ mret[1].raised = "none" =>
              /\ SameQuotient(mret[1].value.profit_factor,
                     [ num |-> GrossProfit(mcall.raw.trades),
                       den |-> AtLeastEpsilon(SumOfLosses(mcall.raw.trades)) ])
              /\ mret[1].value.max_drawdown =
                     RoundTo(MaxDrawdown(
                         IF mcall.fn = "calc_metrics"
                         THEN TradeEquity(mcall.raw.trades, mcall.initial_capital)
                         ELSE mcall.raw.equity_curve), 2)

\* C24: calc_metrics returns sharpe_ratio 0 whenever the exit times of the
\* trades fall on fewer than 3 distinct days, and whenever the daily returns
\* have zero standard deviation.
DistinctDays(ts) == Cardinality({ts[k].exit_time : k \in 1 .. Len(ts)})

\* the daily returns: from initial_capital through the day-end equities
DailyReturns(ts, initial_capital) ==
    Returns(<<initial_capital>> \o SortedVals(DailyEq(ts, initial_capital, Len(ts))))

C24_SharpeZeroBelowThreeDays ==
    (mret # <<>> /\ mcall.fn = "calc_metrics" /\ mret[1].raised = "none"
       /\ mcall.raw.trades # <<>>) =>
        /\ DistinctDays(mcall.raw.trades) < 3 =>
              mret[1].value.sharpe_ratio.mean = R(0)
        /\ ~StdPositive(DailyReturns(mcall.raw.trades, mcall.initial_capital)) =>
              mret[1].value.sharpe_ratio.mean = R(0)

\* C29: a zero-trade record is put into the summaries and the elite buffer
\* only for a trial whose decision function returned a trade list, and that
\* list was empty; a decision function that raises or returns None gives
\* the sentinel.
C29_ZeroTradeOnlyWithoutSignals ==
    (mret # <<>> /\ mcall.fn = "objective") =>
        /\ mcall.raw.kind \in {"raises", "none"} => mret[1].kind = "sentinel"
        /\ (mret[1].kind = "entry" /\ mret[1].full_entry.total_trades = 0) =>
              /\ mcall.raw.kind = "dict"
              /\ "trades" \in mcall.raw.keys

\* ------------------------------------------------------------------------
\* C30: a run of run_optimization ends in one of two ways: with a fatal
\* error before any trial is started, or with its trials evaluated and one
\* result event followed by the final done event. No error event is emitted
\* once a trial has been started, and no result event follows an error.
\* ------------------------------------------------------------------------
\* no step of the run is left to take
RunEnded == rpc \in {"failed", "stream_error"} \/ dpc = "done"

C30_FailFastOrReport ==
    LET ev == ResponseTypes IN
    /\ http_error # <<>> => (nextTrial = 0 /\ ev = <<>>)
    /\ \A j \in 1 .. Len(ev) : ev[j] = "error" => nextTrial = 0
    /\ \A j, k \in 1 .. Len(ev) : (ev[j] = "error" /\ j < k) => ev[k] # "result"
    /\ Cardinality({j \in 1 .. Len(ev) : ev[j] = "result"}) <= 1
    /\ \A j \in 1 .. Len(ev) :
          ev[j] = "result" => (j + 1 = Len(ev) /\ ev[j + 1] = "done")
    /\ RunEnded =>
          \/ http_error # <<>>
          \/ /\ Len(ev) >= 2
             /\ ev[Len(ev) - 1] = "result"
             /\ ev[Len(ev)] = "done"

\* ------------------------------------------------------------------------
\* C31: at every batch boundary best_value is the best score, under
\* _is_better, of the trials that have completed successfully so far, however
\* the concurrently running trials of the batch interleave; the sentinel of
\* a failed trial never becomes best_value.
\* ------------------------------------------------------------------------
\* study.optimize has returned and the next batch is not started
BatchBoundary == dpc = "loop" /\ batchLog # <<>>

SuccessfulScores == {results_store[k].score : k \in 1 .. Len(results_store)}

C31_BestValueIsBest ==
    BatchBoundary =>
        /\ best_value = <<>> <=> SuccessfulScores = {}
        /\ best_value # <<>> =>
              /\ best_value[1] \in SuccessfulScores
              /\ \A v \in SuccessfulScores : ~IsBetter(v, best_value[1])

\* ------------------------------------------------------------------------
\* C32: every pending order set on a bar that is not the last one is filled
\* on the next bar. The else branch of step 1 (the stale-signal branch) is
\* taken only when pending_signal is None already, each fill is on the bar
\* after the one that decided its order, and no order is left unfilled.
\* ------------------------------------------------------------------------
\* the latest order has been filled on the bar after its decision
LastOrderFilled ==
    /\ fills # <<>>
    /\ fills[Len(fills)].decided = orderBar
    /\ fills[Len(fills)].bar = orderBar + 1

C32_PendingOrderFilledNextBar ==
    /\ pc = "fill" =>
          \/ pending_signal = "none"
          \/ pending_signal = "entry" /\ position = NoPosition /\ orderBar = i - 1
          \/ pending_signal = "exit" /\ position # NoPosition /\ orderBar = i - 1
    /\ pc = "signal" => pending_signal = "none"
    /\ \A k \in 1 .. Len(fills) : fills[k].bar = fills[k].decided + 1
    /\ \A k \in 1 .. Len(fills) :
          fills[k].kind = (IF k % 2 = 1 THEN "entry" ELSE "exit")
    /\ (pc = "signal" /\ orderBar = i - 1 /\ orderBar >= 0) => LastOrderFilled
    /\ (pc \in {"close", "return", "done"} /\ orderBar >= 0 /\ orderBar < n - 1) =>
          LastOrderFilled

\* an entry order and an exit order have both been filled, and the bar after
\* them went through the else branch with nothing pending
C32_Witness ==
    /\ pc = "signal"
    /\ Len(fills) = 2
    /\ fills[2].bar < i
    /\ orderBar = fills[2].decided

\* ------------------------------------------------------------------------
\* C33: the returned trades are in chronological order and do not overlap.
\* Every trade has exit_time >= entry_time, with equality only for a position
\* entered on the last bar and force-closed there, and each trade's
\* entry_time is strictly greater than the exit_time of the trade before it.
\* (A bar's time is its index: the bars of a series are strictly increasing
\* in time.)
\* ------------------------------------------------------------------------
\* the trade was closed after the loop, at the last bar
ForceClosed(k) ==
    \E j \in 1 .. Len(ledger) :
        ledger[j].closed /\ ledger[j].trade = k /\ ledger[j].forced

C33_TradesChronological ==
    \A k \in 1 .. Len(trades) :
        /\ trades[k].exit_time >= trades[k].entry_time
        /\ trades[k].exit_time = trades[k].entry_time =>
              /\ trades[k].entry_time = n - 1
              /\ ForceClosed(k)
              /\ k = Len(trades)
        /\ k > 1 => trades[k].entry_time > trades[k - 1].exit_time

\* a run has returned two trades, the second entered on the last bar and
\* force-closed there
C33_Witness ==
    /\ pc = "done"
    /\ Len(trades) = 2
    /\ trades[1].exit_time > trades[1].entry_time
    /\ trades[2].entry_time = n - 1
    /\ trades[2].exit_time = n - 1

\* ------------------------------------------------------------------------
\* C34: for every bar the loop processes and every fast >= 1, slow >= 1
\* (fast > slow included), each of the four moving averages is taken over
\* exactly fast (resp. slow) consecutive closes ending at bar i or bar i-1,
\* all of them in [0, i]; no window starts at a negative index.
\* ------------------------------------------------------------------------
\* the slice closes[w[1]:w[2]] holds `period` closes, the last at bar `last`,
\* and its start index is not negative
WindowExact(w, period, last) ==
    /\ w[1] >= 0
    /\ w[2] = last + 1
    /\ SliceIdx(w[1], w[2], n) = (last - period + 1) .. last
    /\ Cardinality(SliceIdx(w[1], w[2], n)) = period
    /\ SliceIdx(w[1], w[2], n) \subseteq 0 .. last

\* the bars step 2 has run on
ProcessedBars == {barLog[k].bar : k \in 1 .. Len(barLog)}

C34_WindowsInRange ==
    \A k \in ProcessedBars :
        /\ WindowExact(FastWindow(k), cfg.fast, k)
        /\ WindowExact(SlowWindow(k), cfg.slow, k)
        /\ WindowExact(FastWindowPrev(k), cfg.fast, k - 1)
        /\ WindowExact(SlowWindowPrev(k), cfg.slow, k - 1)

\* ------------------------------------------------------------------------
\* C35: at every entry fill, prices and qty_value being positive, the
\* equity used for sizing is positive and the units are strictly positive,
\* after any earlier round-trips, losing ones and fixed commissions included.
\* ------------------------------------------------------------------------
RPositive(x) == x[1] > 0

\* units are sized from equity in the percent_of_equity mode only
C35_PositiveSizing ==
    \A k \in 1 .. Len(ledger) :
        /\ RPositive(ledger[k].entry)
        /\ cfg.qty_type = "percent_of_equity" => RPositive(ledger[k].eq_before)
        /\ RPositive(ledger[k].units)

\* ------------------------------------------------------------------------
\* C36: _call_gemini_with_retry calls the model at most max_retries + 1
\* times. It returns the text of the first successful call, re-raises an
\* error that is no quota error at once, raises RuntimeError once
\* max_retries + 1 calls in a row have failed with a quota error, and never
\* returns without a successful call.
\* ------------------------------------------------------------------------
\* the calls before the last one all failed with a quota error
OnlyQuotaErrorsBeforeLast ==
    \A k \in 1 .. Len(gem_log) - 1 : ~gem_log[k].ok /\ IsQuotaError(gem_log[k].exc)

LastCall == gem_log[Len(gem_log)]

C36_BoundedRetry ==
    /\ gpc # "idle" => Len(gem_log) <= max_retries + 1
    /\ gpc = "attempt" =>
          /\ Len(gem_log) = attempt
          /\ \A k \in 1 .. Len(gem_log) : ~gem_log[k].ok /\ IsQuotaError(gem_log[k].exc)
    /\ gpc = "returned" =>
          /\ gem_log # <<>>
          /\ LastCall.ok
          /\ OnlyQuotaErrorsBeforeLast
          /\ gret[1].ok
          /\ gret[1].value # None
          /\ gret[1].value.kind = LastCall.value.kind
    /\ gpc = "raised" =>
          /\ gem_log # <<>>
          /\ ~LastCall.ok
          /\ OnlyQuotaErrorsBeforeLast
          /\ ~gret[1].ok
          /\ IF IsQuotaError(LastCall.exc)
             THEN /\ Len(gem_log) = max_retries + 1
                  /\ gret[1].exc.type = "RuntimeError"
             ELSE gret[1].exc = LastCall.exc

\* four calls in a row were answered with a quota error and the
\* RuntimeError was raised
C36_Witness ==
    /\ gpc = "raised"
    /\ max_retries = DefaultMaxRetries
    /\ Len(gem_log) = DefaultMaxRetries + 1
    /\ gret[1].exc.type = "RuntimeError"

\* ------------------------------------------------------------------------
\* C37: translate_with_gemini returns the cached translation without calling
\* the translator whenever the script's hash is in the cache and bypass_cache
\* is false; with bypass_cache true the cached entry is removed first and is
\* never returned; only a successful translation is ever stored in the cache,
\* never the fallback strategy code.
\* ------------------------------------------------------------------------
\* a call of translate_with_gemini has ended
TranslateEnded == tpc = "idle" /\ tret # <<>>

C37_TranslateCache ==
    /\ translate_cache # <<>> =>
          /\ translate_cache[1].origin = "gemini"
          /\ translate_cache[1].kind \in CodeKinds
          /\ translate_cache[1].call \in 1 .. tcalls
    /\ (tpc = "await" /\ targs.bypass_cache) => translate_cache # tbefore \/ tbefore = <<>>
    /\ TranslateEnded =>
          /\ (tbefore # <<>> /\ ~targs.bypass_cache) =>
                /\ tret = <<Ok(tbefore[1])>>
                /\ gem_log = <<>>
          /\ (tbefore # <<>> /\ targs.bypass_cache) =>
                /\ tret # <<Ok(tbefore[1])>>
                /\ translate_cache # tbefore
          /\ (tret[1].ok /\ tret[1].value.origin = "gemini" /\ gem_log # <<>>) =>
                /\ LastCall.ok
                /\ tret[1].value.call = tcalls

\* a second call for the same script was answered from the cache
C37_Witness ==
    /\ TranslateEnded
    /\ tcalls >= 2
    /\ tbefore # <<>>
    /\ ~targs.bypass_cache
    /\ tret = <<Ok(tbefore[1])>>

\* ------------------------------------------------------------------------
\* C38: the market-data fallback flag _use_kraken is monotone. It starts
\* false, is set by the first fetch_and_cache call in which Binance.US fails
\* (that call then goes on to Kraken), and is never reset, so that no later
\* fetch_and_cache call contacts Binance.US; a Kraken failure is logged and
\* does not raise out of fetch_and_cache.
\* ------------------------------------------------------------------------
\* the steps at which a Binance.US request failed
BinanceFailures == {k \in 1 .. Len(mlog) : mlog[k].kind = "binance_failed"}

C38_KrakenFlagMonotone ==
    /\ use_kraken <=> BinanceFailures # {}
    /\ PingSource = (IF BinanceFailures # {} THEN "Kraken" ELSE "Binance.US")
    /\ \A j, k \in 1 .. Len(mlog) : (j < k /\ mlog[j].flag) => mlog[k].flag
    /\ \A k \in 1 .. Len(mlog) :
          /\ mlog[k].kind = "binance_failed" =>
                /\ mlog[k].flag
                /\ mlog[k + 1] = MarketEvent(mlog[k].task, "kraken", TRUE)
          /\ (mlog[k].kind = "start" /\ mlog[k].flag) =>
                /\ mlog[k + 1] = MarketEvent(mlog[k].task, "kraken", TRUE)
                /\ \A j \in k .. Len(mlog) :
                      mlog[j].task = mlog[k].task => mlog[j].kind # "binance"
          /\ mlog[k].kind = "binance" => ~mlog[k].flag
          /\ mlog[k].kind # "raise"
    /\ ~fraised

\* Binance.US failed in one call; a call started later went to Kraken at
\* once, Kraken failed too and the call returned
C38_Witness ==
    \E j, k, l \in 1 .. Len(mlog) :
        /\ j < k /\ k < l /\ l < Len(mlog)
        /\ mlog[j].kind = "binance_failed"
        /\ mlog[k].kind = "start"
        /\ mlog[l].kind = "kraken_failed"
        /\ mlog[l].task = mlog[k].task
        /\ mlog[l + 1].kind = "return"

\* ------------------------------------------------------------------------
\* C39: the pagination loops of optimize.fetch_candles terminate for every
\* sequence of server answers and a finite end time. In the Binance.US loop
\* each iteration either stops or strictly increases current_start, in the
\* Kraken loop each iteration either stops or strictly advances since, and
\* the resulting series has strictly increasing timestamps with no duplicate
\* bar (the servers answering with the candles that were asked for).
\* ------------------------------------------------------------------------
StrictlyIncreasing(sq) == \A k \in 1 .. Len(sq) - 1 : sq[k] < sq[k + 1]

BinanceLoopAdvances ==
    (ppc = "binance" /\ ppc' = "binance") => current_start' > current_start

KrakenLoopAdvances ==
    (ppc = "kraken" /\ ppc' = "kraken") => since' > since

SeriesIncreasing ==
    (ppc' = "done" /\ honest') => StrictlyIncreasing(all_candles')

BinancePaginationAdvances == [][BinanceLoopAdvances]_vars

C39_PaginationTerminates ==
    [][BinanceLoopAdvances /\ KrakenLoopAdvances /\ SeriesIncreasing]_vars

\* ------------------------------------------------------------------------
\* C40: in the strategy store, after any sequence of save, list, update and
\* delete requests: an entry saved with type "activity" gets expires_at =
\* creation time + 7 days and is never returned by list_activities once the
\* time of the request is past its expires_at; an entry saved with type
\* "strategy" has no expiry and leaves the table only by delete_strategy of
\* its id, never by the expiry cleanup of an activity save.
\* ------------------------------------------------------------------------
\* the order of two datetimes
TimeLess(a, b) == a[1] < b[1] \/ (a[1] = b[1] /\ a[2] < b[2])

\* the datetime a stored text stands for
TimeOf(text) == CHOOSE t \in Times : IsoFormat(t) = text

PastExpiry(row, now) ==
    /\ row.expires_at # <<>>
    /\ TimeLess(TimeOf(row.expires_at), now)

NoExpiredActivityListed ==
    sret.op = "list_activities" =>
       \A k \in 1 .. Len(sret.rows) :
          /\ sret.rows[k].type = "activity"
          /\ ~PastExpiry(db[sret.rows[k].id], sret.now)

SaveSetsExpiry ==
    (sret'.op = "save" /\ nsaved' = nsaved + 1) =>
       LET saved == db'[nsaved']
       IN  /\ TimeOf(saved.created_at) = clock
           /\ saved.type = "activity" =>
                 /\ saved.expires_at # <<>>
                 /\ TimeOf(saved.expires_at) = <<clock[1] + ActivityTTLDays, clock[2]>>
           /\ saved.type = "strategy" => saved.expires_at = <<>>

StrategyLeavesOnlyByDelete ==
    \A id \in DOMAIN db :
       db[id].type = "strategy" =>
          /\ db[id].expires_at = <<>>
          /\ id \notin DOMAIN db' =>
                sret' = [op |-> "delete", now |-> clock, id |-> id,
                         status |-> "deleted", rows |-> <<>>, expires_at |-> <<>>]

C40_ActivityExpiryStrategyKept ==
    /\ []NoExpiredActivityListed
    /\ [][SaveSetsExpiry /\ StrategyLeavesOnlyByDelete]_vars

\* list_activities has answered while an expired activity was still in the
\* table, next to a strategy that is older than the TTL
C40_Witness ==
    /\ sret.op = "list_activities"
    /\ \E id \in DOMAIN db :
          db[id].type = "activity" /\ PastExpiry(db[id], sret.now)
    /\ \E id \in DOMAIN db :
          /\ db[id].type = "strategy"
          /\ TimeLess(<<TimeOf(db[id].created_at)[1] + ActivityTTLDays,
                        TimeOf(db[id].created_at)[2]>>, sret.now)

====
